---------------------------- MODULE Spec2Model ----------------------------
(***************************************************************************)
(* Model of the Telegram music bot's track registry and of the handlers    *)
(* that keep a track's chat messages in step with it.                      *)
(*                                                                         *)
(* File-backed revision (src/unnamed/part_000): the store is the in-memory *)
(* array trackList of track objects, written as a whole to trackList.json  *)
(* by safeSave().  Track objects are shared by reference between the array *)
(* and the handlers that looked them up, so the model keeps a heap         *)
(* (tracks) indexed by object reference and trackList holds references.    *)
(*                                                                         *)
(* A handler is an async function: it runs without interruption from one   *)
(* await to the next.  Each action below is one such run of one handler    *)
(* (hs[h].pc names the await it is suspended at); handlers of different    *)
(* updates interleave at these points.                                     *)
(*                                                                         *)
(* Database-backed revision (src/unnamed/part_001, from line 490): the     *)
(* store is a MongoDB collection (db) read and written through Mongoose.   *)
(* A handler works on its own copy of a document; save() sends the change  *)
(* Mongoose recorded for the array: push() an append to the stored array,  *)
(* splice() a replacement of the whole array that applies only while the   *)
(* stored version (__v) is the one that was loaded.                        *)
(***************************************************************************)
EXTENDS Integers, Sequences, FiniteSets, TLC

\* ------------------------------------------------------------------ bounds
MaxHandlers == 2     \* updates handled in one behaviour
MaxTicks == 1        \* milliseconds the clock may advance
MaxLost == 1         \* messages that disappear outside the bot's control
\* the longest store the pagination is checked on, and the highest page number
\* a page button is made to carry
MaxList == 25
MaxCaught == 4       \* errors the global handler is handed in one behaviour
MaxPage == 4

Handlers == 1..MaxHandlers

\* ------------------------------------------------------- users and admins
Users == {1, 2}
\* ADMIN_IDS: the allow-list, a list of strings split from the environment
ADMIN_IDS == {"1"}
isAdmin(id) == ToString(id) \in ADMIN_IDS

\* ----------------------------------------------------------------- files
\* An incoming audio/document: file_id (transfer handle) and file_unique_id
\* (content-unique handle).  fA and fA2 are the same content re-sent.
Files == { [fileId |-> "fA",  fuid |-> "uA"],
           [fileId |-> "fA2", fuid |-> "uA"],
           [fileId |-> "fB",  fuid |-> "uB"] }
NoFile == [fileId |-> "", fuid |-> ""]

\* --------------------------------------------------------------- messages
\* A chat message is named by the update that caused it and its role there;
\* update 0 stands for the uploads that happened before the behaviour starts.
\* The code never looks at the number of a message id, only at its identity.
Roles == {"audio", "added", "type", "like", "copy", "bar"}
InitMsgs == { <<0, "a1">>, <<0, "t1">>, <<0, "l1">>, <<0, "a2">>, <<0, "l2">>,
              <<0, "pc">>, <<0, "pb">>, <<0, "c1">>, <<0, "t2">> }
AllMsgs == InitMsgs \cup (Handlers \X Roles)

\* --------------------------------------------------------------- tracks
\* A track id is `${file_unique_id}_${Date.now()}`: the pair below.  The
\* millisecond part is all digits, so the string splits at its last "_" and
\* two ids are the same string exactly when the pairs are equal.
NoId == <<"", 0>>
\* object references: 1 and 2 are the tracks loaded from trackList.json at
\* startup, 2 + h is the object the upload handler h creates
Refs == 1..(2 + MaxHandlers)
NewRef(h) == 2 + h

NoTrack == [id |-> NoId, fileId |-> "", fileUniqueId |-> "", userId |-> 0,
            voters |-> <<>>, createdAt |-> 0, type |-> "", messages |-> <<>>]

\* a document of TrackSchema: the fields of a track and Mongoose's version key
Doc(t, v) ==
  [id |-> t.id, fileId |-> t.fileId, fileUniqueId |-> t.fileUniqueId,
   userId |-> t.userId, voters |-> t.voters, createdAt |-> t.createdAt,
   type |-> t.type, messages |-> t.messages, v |-> v]
NoDoc == Doc(NoTrack, 0)
NoPlay == [trackId |-> NoId, msgIds |-> <<>>]

\* plays that schedule an expiry callback: one per handler, and play 0, which
\* happened before the behaviour starts
Plays == 0..MaxHandlers
NoTimer == [st |-> "none", uid |-> "", trackId |-> NoId, iter |-> <<>>, k |-> 0]

\* the process after bot.launch(): no exit timer pending, nothing logged
Launched == [st |-> "running", code |-> 0, exits |-> 0, launches |-> 1, log |-> <<>>]

VARIABLES
  trackList,        \* the store: sequence of references to track objects
  tracks,           \* heap: reference -> track object
  saved,            \* trackList.json: the tracks as last written by safeSave
  live,             \* messages that exist in the chat
  shown,            \* message -> the like bar it displays
  now,              \* Date.now()
  hs,               \* handler -> its locals and the await it is suspended at
  paginationState,  \* String(userId) -> { key, page }
  lost,             \* messages lost so far (bounded by MaxLost)
  snap,             \* handler -> the store as it was when the handler started
  started,          \* updates whose handling has started
  db,               \* the tracks collection: sequence of stored documents
  tempPlays,        \* String(userId) -> { trackId, msgIds } of the last play
  timers,           \* play -> the expiry callback its setTimeout scheduled
  disk,             \* trackList.json's medium: "ok"; "fail": writes throw and leave
                    \* the file as it is; "torn": the file holds the beginning of a
                    \* write that did not complete (saved is then the last snapshot
                    \* written completely)
  proc              \* the process: running or exited (with its exit status), the
                    \* pending process.exit timers, bot.launch calls, console.error log

vars == <<trackList, tracks, saved, live, shown, now, hs, paginationState,
          lost, snap, started, db, tempPlays, timers, disk, proc>>
dbVars == <<db, tempPlays>>

\* ------------------------------------------------------------- sequences
Range(s) == { s[i] : i \in 1..Len(s) }

indexOf(s, x) ==
  IF x \in Range(s) THEN CHOOSE i \in 1..Len(s) : s[i] = x /\ \A j \in 1..(i-1) : s[j] # x
  ELSE 0

\* Array.prototype.splice(i, 1) with a 0-based start i: removes the element
\* at i, and nothing when i is at or past the end.
splice1(s, i) ==
  IF i >= 0 /\ i < Len(s)
  THEN [j \in 1..(Len(s) - 1) |-> IF j <= i THEN s[j] ELSE s[j + 1]]
  ELSE s

\* ------------------------------------------------------------- like bar
NoBar == [id |-> NoId, count |-> -1, liked |-> FALSE, del |-> FALSE]

\* (mutation) the delete button is pushed for every user
likeBar_delForAll(track, userId) ==
  [id |-> track.id,
   count |-> Len(track.voters),
   liked |-> userId \in Range(track.voters),
   del |-> TRUE]

likeBar(track, userId) ==
  [id |-> track.id,
   count |-> Len(track.voters),
   liked |-> userId \in Range(track.voters),
   del |-> isAdmin(userId)]

\* ---------------------------------------------------------------- store
\* the 1-based position of the first track of `list` with that id, 0 if none
firstWithId(list, heap, id) ==
  IF \E i \in 1..Len(list) : heap[list[i]].id = id
  THEN CHOOSE i \in 1..Len(list) :
         /\ heap[list[i]].id = id
         /\ \A j \in 1..(i-1) : heap[list[j]].id # id
  ELSE 0

\* (mutation) the lookup also finds a track object that is no longer stored
findTrack_stale(id) ==
  IF \E r \in Refs : tracks[r].id = id
  THEN CHOOSE r \in Refs : tracks[r].id = id
  ELSE 0

\* trackList.find(t => t.id === id): the reference of the first track with
\* that id, 0 for undefined.
findTrack(id) ==
  IF firstWithId(trackList, tracks, id) = 0 THEN 0
  ELSE trackList[firstWithId(trackList, tracks, id)]

\* (mutation) an absent id yields the last index, the element that
\* splice(-1, 1) takes
findIndex_lastWhenAbsent(id) ==
  IF firstWithId(trackList, tracks, id) = 0 THEN Len(trackList) - 1
  ELSE firstWithId(trackList, tracks, id) - 1

\* trackList.findIndex(t => t.id === id), 0-based, -1 when absent.
findIndex(id) == firstWithId(trackList, tracks, id) - 1

\* JSON.stringify(trackList): the value of every track in the array.
Snapshot(list, heap) == [i \in 1..Len(list) |-> heap[list[i]]]

\* safeSave(): writeFileSync of the whole list; an error is caught and logged.
\* A write that succeeds replaces the file, a torn one included.
saveResult == IF disk = "fail" THEN "fail" ELSE "ok"
safeSave(list, heap) ==
  /\ saved' = IF disk = "fail" THEN saved ELSE Snapshot(list, heap)
  /\ disk' = IF disk = "fail" THEN "fail" ELSE "ok"

\* (mutation) a duplicate test that compares the transfer handle only
exists_fileIdOnly(file) ==
  \E i \in 1..Len(trackList) : tracks[trackList[i]].fileId = file.fileId

\* the upload handler's duplicate test
exists(file) ==
  \E i \in 1..Len(trackList) :
     \/ tracks[trackList[i]].fileId = file.fileId
     \/ tracks[trackList[i]].fileUniqueId = file.fuid

\* ------------------------------------------------------------- handlers
Idle == [kind |-> "none", pc |-> "idle", user |-> 0, id |-> NoId, ref |-> 0,
         file |-> NoFile, iter |-> <<>>, k |-> 0, upd |-> <<>>, res |-> <<>>,
         bar |-> NoBar, idx |-> -1, ack |-> "", page |-> <<>>, type |-> "", n |-> 0,
         over |-> FALSE, was |-> FALSE, doc |-> NoDoc, op |-> "", origin |-> <<>>,
         wrote |-> ""]

\* "failed": the handler threw; bot.catch logged the error
\* "killed": the process died while the handler was in flight
Finished(h) == hs[h].pc \in {"idle", "done", "failed", "killed"}
\* seq = TRUE: updates are handled one at a time.  Handler slots are
\* interchangeable, so they are taken in order.
MayStart(h, seq) ==
  /\ hs[h].pc = "idle"
  /\ \A g \in Handlers : g < h => hs[g].pc # "idle"
  /\ seq => \A g \in Handlers : Finished(g)

\* ids a button press can carry: every id a message ever showed
KnownIds == { tracks[r].id : r \in { q \in Refs : tracks[q].id # NoId } }

TheStore == [list |-> trackList, heap |-> tracks, saved |-> saved]
NoStore == [list |-> <<>>, heap |-> [r \in Refs |-> NoTrack], saved |-> <<>>]

\* Bookkeeping of the model, not of the bot: when updates are handled one at
\* a time, remember the store a handler started from and the order of starts
\* (field n); when they interleave, whether another handler was suspended
\* when this one started (field over).
Begin(h, seq) ==
  /\ snap' = [snap EXCEPT ![h] = IF seq THEN TheStore ELSE NoStore]
  /\ started' = IF seq THEN started + 1 ELSE started
Fresh(h, kind, u) ==
  [Idle EXCEPT !.kind = kind, !.user = u, !.n = started',
               !.over = \E g \in Handlers : ~Finished(g)]

\* -------------------------------------------------- upload (audio/document)
\* (mutation) a track created as a cover
newTrack_cover(f, u, t, m) ==
  [id |-> <<f.fuid, t>>, fileId |-> f.fileId, fileUniqueId |-> f.fuid,
   userId |-> u, voters |-> <<>>, createdAt |-> t, type |-> "cover",
   messages |-> <<m>>]

\* the track object the upload handler builds for file f sent by user u at
\* time t in message m
newTrack(f, u, t, m) ==
  [id |-> <<f.fuid, t>>, fileId |-> f.fileId, fileUniqueId |-> f.fuid,
   userId |-> u, voters |-> <<>>, createdAt |-> t, type |-> "original",
   messages |-> <<m>>]

UploadStart(h, u, f, seq) ==
  /\ MayStart(h, seq)
  /\ live' = live \cup {<<h, "audio">>}
  /\ Begin(h, seq)
  /\ IF exists(f)
     THEN /\ hs' = [hs EXCEPT ![h] = [Fresh(h, "upload", u) EXCEPT !.pc = "u_warn", !.file = f]]
          /\ UNCHANGED tracks
     ELSE /\ tracks' = [tracks EXCEPT ![NewRef(h)] = newTrack(f, u, now, <<h, "audio">>)]
          /\ hs' = [hs EXCEPT ![h] = [Fresh(h, "upload", u) EXCEPT !.pc = "u_added",
                                            !.file = f, !.ref = NewRef(h),
                                            !.id = <<f.fuid, now>>]]
  /\ UNCHANGED <<trackList, saved, disk, proc, shown, now, paginationState, lost>>
  /\ UNCHANGED dbVars
  /\ UNCHANGED timers

\* the duplicate warning was sent: deleteLater(warn), return
UploadWarned(h) ==
  /\ hs[h].pc = "u_warn"
  /\ hs' = [hs EXCEPT ![h].pc = "done", ![h].ack = "duplicate"]
  /\ UNCHANGED <<trackList, tracks, saved, disk, proc, live, shown, now, paginationState, lost, snap, started>>
  /\ UNCHANGED dbVars
  /\ UNCHANGED timers

\* a reply came back: register it in the new track's messages
UploadAdded(h) ==
  /\ hs[h].pc = "u_added"
  /\ live' = live \cup {<<h, "added">>}
  /\ tracks' = [tracks EXCEPT ![hs[h].ref].messages = Append(@, <<h, "added">>)]
  /\ hs' = [hs EXCEPT ![h].pc = "u_type"]
  /\ UNCHANGED <<trackList, saved, disk, proc, shown, now, paginationState, lost, snap, started>>
  /\ UNCHANGED dbVars
  /\ UNCHANGED timers

UploadTyped(h) ==
  /\ hs[h].pc = "u_type"
  /\ live' = live \cup {<<h, "type">>}
  /\ tracks' = [tracks EXCEPT ![hs[h].ref].messages = Append(@, <<h, "type">>)]
  /\ hs' = [hs EXCEPT ![h].pc = "u_like",
                      ![h].bar = likeBar(tracks'[hs[h].ref], hs[h].user)]
  /\ UNCHANGED <<trackList, saved, disk, proc, shown, now, paginationState, lost, snap, started>>
  /\ UNCHANGED dbVars
  /\ UNCHANGED timers

\* the like bar was sent: register it, trackList.push(track), safeSave()
UploadLiked(h) ==
  /\ hs[h].pc = "u_like"
  /\ live' = live \cup {<<h, "like">>}
  /\ shown' = [shown EXCEPT ![<<h, "like">>] = hs[h].bar]
  /\ tracks' = [tracks EXCEPT ![hs[h].ref].messages = Append(@, <<h, "like">>)]
  /\ trackList' = Append(trackList, hs[h].ref)
  /\ safeSave(trackList', tracks')
  /\ UNCHANGED proc
  /\ hs' = [hs EXCEPT ![h].pc = "done", ![h].ack = "added", ![h].wrote = saveResult]
  /\ UNCHANGED <<now, paginationState, lost, snap, started>>
  /\ UNCHANGED dbVars
  /\ UNCHANGED timers

\* ------------------------------------------------------------ pagination
perPage == 10
\* no entry in paginationState
NoPage == [key |-> "", page |-> 0]
WeekMs == 604800000      \* 7 * 86400000

Max2(a, b) == IF a >= b THEN a ELSE b
Min2(a, b) == IF a <= b THEN a ELSE b
\* (mutation) the page count rounds down
CeilDiv_floor(a, b) == a \div b
CeilDiv(a, b) == (a + b - 1) \div b

\* [...list].sort((a, b) => b.voters.length - a.voters.length): the sort is
\* stable, so tracks with equal like counts keep their order in the list.
Likes(r) == Len(tracks[r].voters)
InsertByLikes(s, r) ==
  LET before == { i \in 1..Len(s) : Likes(s[i]) >= Likes(r) }
      n == IF before = {} THEN 0 ELSE CHOOSE i \in before : \A j \in before : j <= i
  IN SubSeq(s, 1, n) \o <<r>> \o SubSeq(s, n + 1, Len(s))
RECURSIVE sortByLikes(_)
sortByLikes(s) ==
  IF s = <<>> THEN <<>>
  ELSE InsertByLikes(sortByLikes(SubSeq(s, 1, Len(s) - 1)), s[Len(s)])

\* createdAt is written with toISOString() and read back with
\* new Date(..).getTime(): both keep the millisecond, so the value read is
\* the millisecond written.
pickListByKey(key, userId) ==
  LET mine(r) == tracks[r].userId = userId
      orig(r) == tracks[r].type = "original"
      cover(r) == tracks[r].type = "cover"
      recent(r) == tracks[r].createdAt >= now - WeekMs
  IN CASE key = "mine" -> SelectSeq(trackList, mine)
       [] key = "orig" -> SelectSeq(trackList, orig)
       [] key = "cover" -> SelectSeq(trackList, cover)
       [] key = "global" -> sortByLikes(trackList)
       [] key = "week" -> sortByLikes(SelectSeq(trackList, recent))
       [] OTHER -> trackList

\* A list title: the emoji it starts with and its words.
titleMap(key) ==
  CASE key = "all" -> [emoji |-> "clipboard", words |-> "Spisok trekov"]
    [] key = "mine" -> [emoji |-> "headphones", words |-> "Tvoi treki"]
    [] key = "orig" -> [emoji |-> "dvd", words |-> "Originalnye"]
    [] key = "cover" -> [emoji |-> "microphone", words |-> "Kaver-versii"]
    [] key = "global" -> [emoji |-> "globe", words |-> "Top za vsyo vremya"]
    [] key = "week" -> [emoji |-> "trophy", words |-> "Top za nedelyu"]
    [] OTHER -> [emoji |-> "clipboard", words |-> "Spisok trekov"]

getListKey(title) ==
  CASE title.emoji = "clipboard" -> "all"
    [] title.emoji = "headphones" -> "mine"
    [] title.emoji = "dvd" -> "orig"
    [] title.emoji = "microphone" -> "cover"
    [] title.emoji = "globe" -> "global"
    [] title.emoji = "trophy" -> "week"
    [] OTHER -> "all"

NoRender == [empty |-> TRUE, key |-> "", page |-> 0, totalPages |-> 0,
             slice |-> <<>>, prev |-> FALSE, next |-> FALSE]

\* (mutation) the requested page is clamped from below only
showTracks_noUpperClamp(list, title, page) ==
  LET totalPages == Max2(1, CeilDiv(Len(list), perPage))
      p == Max2(1, page)
      start == (p - 1) * perPage
  IN [empty |-> Len(list) = 0,
      key |-> getListKey(title),
      page |-> p,
      totalPages |-> totalPages,
      slice |-> [i \in 1..Min2(perPage, Max2(0, Len(list) - start)) |->
                    tracks[list[start + i]].id],
      prev |-> Len(list) # 0 /\ p > 1,
      next |-> Len(list) # 0 /\ p < totalPages]

\* showTracks(ctx, list, title, page): the page it renders (one button per
\* track of the slice, with the track's id) and the session it stores.
showTracks(list, title, page) ==
  LET totalPages == Max2(1, CeilDiv(Len(list), perPage))
      p == Min2(Max2(1, page), totalPages)
      start == (p - 1) * perPage
  IN [empty |-> Len(list) = 0,
      key |-> getListKey(title),
      page |-> p,
      totalPages |-> totalPages,
      slice |-> [i \in 1..Min2(perPage, Max2(0, Len(list) - start)) |->
                    tracks[list[start + i]].id],
      prev |-> Len(list) # 0 /\ p > 1,
      next |-> Len(list) # 0 /\ p < totalPages]

\* (mutation) the session is stored for an empty list too
sessionAfter_kept(shownPage) == [key |-> shownPage.key, page |-> shownPage.page]
\* the session showTracks leaves for the user
sessionAfter(shownPage) ==
  IF shownPage.empty THEN NoPage ELSE [key |-> shownPage.key, page |-> shownPage.page]

\* --------------------------------------------------------------- like
\* (mutation) an add-only like
flipVote_addOnly(voters, uid) == Append(voters, uid)

\* (mutation) the flip is made on a copy of the voters and never stored
flipVote_lost(voters, uid) == voters

\* the vote flip of the like handler: splice out, or push
flipVote(voters, uid) ==
  LET i == indexOf(voters, uid)
  IN IF i >= 1 THEN splice1(voters, i - 1) ELSE Append(voters, uid)

\* findTrackAndCheck, indexOf, splice/push, then the first reply is awaited
LikeStart(h, u, id, seq) ==
  /\ MayStart(h, seq)
  /\ Begin(h, seq)
  /\ LET tr == findTrack(id)
     IN IF tr = 0
        THEN /\ hs' = [hs EXCEPT ![h] = [Fresh(h, "like", u) EXCEPT !.pc = "done",
                          !.id = id, !.ack = "notfound"]]
             /\ UNCHANGED tracks
        ELSE /\ tracks' = [tracks EXCEPT ![tr].voters = flipVote(@, u)]
             /\ hs' = [hs EXCEPT ![h] = [Fresh(h, "like", u) EXCEPT
                          !.pc = IF u \in Range(tracks[tr].voters) THEN "l_toast" ELSE "l_eff",
                          !.was = u \in Range(tracks[tr].voters),
                          !.id = id, !.ref = tr]]
  /\ UNCHANGED <<trackList, saved, disk, proc, live, shown, now, paginationState, lost>>
  /\ UNCHANGED dbVars
  /\ UNCHANGED timers

\* the like effect was sent; the toast is awaited
LikeEffect(h) ==
  /\ hs[h].pc = "l_eff"
  /\ hs' = [hs EXCEPT ![h].pc = "l_toast"]
  /\ UNCHANGED <<trackList, tracks, saved, disk, proc, live, shown, now, paginationState, lost, snap, started>>
  /\ UNCHANGED dbVars
  /\ UNCHANGED timers

\* (mutation) a track found missing from the store is pushed again before
\* the save
LikeSave_pushBack(h) ==
  /\ hs[h].pc = "l_toast"
  /\ trackList' = IF hs[h].ref \in Range(trackList) THEN trackList
                  ELSE Append(trackList, hs[h].ref)
  /\ safeSave(trackList', tracks)
  /\ UNCHANGED proc
  /\ LET tr == hs[h].ref
         ms == tracks[tr].messages
     IN IF ms = <<>>
        THEN hs' = [hs EXCEPT ![h].pc = "done", ![h].ack = "ok",
                              ![h].wrote = saveResult]
        ELSE hs' = [hs EXCEPT ![h].pc = "l_edit", ![h].iter = ms, ![h].k = 1,
                              ![h].bar = likeBar(tracks[tr], hs[h].user),
                              ![h].wrote = saveResult]
  /\ UNCHANGED <<tracks, live, shown, now, paginationState, lost, snap, started>>
  /\ UNCHANGED dbVars
  /\ UNCHANGED timers

\* the toast was sent: safeSave(), then the fan-out starts with the first
\* edit; with no messages the loop is skipped and the action is answered
LikeSave(h) ==
  /\ hs[h].pc = "l_toast"
  /\ safeSave(trackList, tracks)
  /\ UNCHANGED proc
  /\ LET tr == hs[h].ref
         ms == tracks[tr].messages
     IN IF ms = <<>>
        THEN /\ hs' = [hs EXCEPT ![h].pc = "done", ![h].ack = "ok",
                                 ![h].wrote = saveResult]
             /\ UNCHANGED tracks
        ELSE /\ hs' = [hs EXCEPT ![h].pc = "l_edit", ![h].iter = ms, ![h].k = 1,
                                 ![h].bar = likeBar(tracks[tr], hs[h].user),
                                 ![h].wrote = saveResult]
             /\ UNCHANGED tracks
  /\ UNCHANGED <<trackList, live, shown, now, paginationState, lost, snap, started>>
  /\ UNCHANGED dbVars
  /\ UNCHANGED timers

\* (mutation) every view whose edit failed is dropped
keepView_editedOnly(o) == o = "ok"

\* whether a view stays in updatedMessages after its edit came back with o:
\* pushed on success, and in the catch unless the error is
\* 'message to edit not found'
keepView(o) == o # "gone"

\* editMessageText on message k of the loop came back with outcome o:
\*   "ok"    edited: the message is kept
\*   "gone"  'message to edit not found': the message is dropped
\*   "err"   any other error: logged, the message is kept
\* after the last message tr.messages is replaced and the action answered
LikeEdited(h, o) ==
  /\ hs[h].pc = "l_edit"
  /\ LET tr == hs[h].ref
         m == hs[h].iter[hs[h].k]
         upd == IF keepView(o) THEN Append(hs[h].upd, m) ELSE hs[h].upd
     IN /\ o = "gone" <=> m \notin live
        /\ shown' = IF o = "ok" THEN [shown EXCEPT ![m] = hs[h].bar] ELSE shown
        /\ IF hs[h].k < Len(hs[h].iter)
           THEN /\ hs' = [hs EXCEPT ![h].k = @ + 1, ![h].upd = upd,
                                    ![h].res = Append(@, o),
                                    ![h].bar = likeBar(tracks[tr], hs[h].user)]
                /\ UNCHANGED tracks
           ELSE /\ hs' = [hs EXCEPT ![h].pc = "done", ![h].upd = upd,
                                    ![h].res = Append(@, o), ![h].ack = "ok"]
                /\ tracks' = [tracks EXCEPT ![tr].messages = upd]
  /\ UNCHANGED <<trackList, saved, disk, proc, live, now, paginationState, lost, snap, started>>
  /\ UNCHANGED dbVars
  /\ UNCHANGED timers

\* --------------------------------------------------------------- delete
\* trackList.splice(idx, 1); safeSave(); then the notice is awaited
delRemove(h) ==
  /\ trackList' = splice1(trackList, hs[h].idx)
  /\ safeSave(trackList', tracks)
  /\ UNCHANGED proc

DelStart(h, u, id, seq) ==
  /\ MayStart(h, seq)
  /\ Begin(h, seq)
  /\ LET idx == findIndex(id)
         base == [Fresh(h, "del", u) EXCEPT !.id = id]
     IN IF ~isAdmin(u)
        THEN /\ hs' = [hs EXCEPT ![h] = [base EXCEPT !.pc = "done", !.ack = "norights"]]
             /\ UNCHANGED <<trackList, saved, disk, proc>>
        ELSE IF idx = -1
        THEN /\ hs' = [hs EXCEPT ![h] = [base EXCEPT !.pc = "done", !.ack = "notfound"]]
             /\ UNCHANGED <<trackList, saved, disk, proc>>
        ELSE LET tr == trackList[idx + 1]
                 ms == tracks[tr].messages
             IN IF ms = <<>>
                THEN /\ hs' = [hs EXCEPT ![h] = [base EXCEPT !.pc = "d_info",
                                                  !.idx = idx, !.ref = tr,
                                                  !.wrote = saveResult]]
                     /\ trackList' = splice1(trackList, idx)
                     /\ safeSave(trackList', tracks)
                     /\ UNCHANGED proc
                ELSE /\ hs' = [hs EXCEPT ![h] = [base EXCEPT !.pc = "d_loop", !.idx = idx,
                                                  !.ref = tr, !.iter = ms, !.k = 1]]
                     /\ UNCHANGED <<trackList, saved, disk, proc>>
  /\ UNCHANGED <<tracks, live, shown, now, paginationState, lost>>
  /\ UNCHANGED dbVars
  /\ UNCHANGED timers

\* deleteMessage on message k came back ("ok": the message is gone now;
\* "fail": the error is swallowed); after the last one the track is removed
DelTornDown(h, o) ==
  /\ hs[h].pc = "d_loop"
  /\ LET m == hs[h].iter[hs[h].k]
     IN /\ o = "ok" => m \in live
        /\ live' = IF o = "ok" THEN live \ {m} ELSE live
        /\ IF hs[h].k < Len(hs[h].iter)
           THEN /\ hs' = [hs EXCEPT ![h].k = @ + 1, ![h].res = Append(@, o)]
                /\ UNCHANGED <<trackList, saved, disk, proc>>
           ELSE /\ hs' = [hs EXCEPT ![h].pc = "d_info", ![h].res = Append(@, o),
                                    ![h].wrote = saveResult]
                /\ delRemove(h)
  /\ UNCHANGED <<tracks, shown, now, paginationState, lost, snap, started>>
  /\ UNCHANGED dbVars
  /\ UNCHANGED timers

\* (mutation) a refresh that falls back to page 1 of the full list when the
\* user has no session
DelRefresh_default(h) ==
  /\ hs[h].pc = "d_info"
  /\ LET uid == ToString(hs[h].user)
         state == IF paginationState[uid] = NoPage THEN [key |-> "all", page |-> 1]
                  ELSE paginationState[uid]
         r == showTracks(pickListByKey(state.key, hs[h].user),
                         titleMap(state.key), state.page)
     IN /\ paginationState' = [paginationState EXCEPT ![uid] = sessionAfter(r)]
        /\ hs' = [hs EXCEPT ![h].pc = "d_page", ![h].page = <<r>>]
  /\ UNCHANGED <<trackList, tracks, saved, disk, proc, live, shown, now, lost, snap, started>>
  /\ UNCHANGED dbVars
  /\ UNCHANGED timers

\* the notice was sent: refreshPagination(ctx), then answerCbQuery('Удалено')
DelRefresh(h) ==
  /\ hs[h].pc = "d_info"
  /\ LET uid == ToString(hs[h].user)
         state == paginationState[uid]
     IN IF state = NoPage
        THEN /\ hs' = [hs EXCEPT ![h].pc = "done", ![h].ack = "deleted"]
             /\ UNCHANGED paginationState
        ELSE LET r == showTracks(pickListByKey(state.key, hs[h].user),
                                 titleMap(state.key), state.page)
             IN /\ paginationState' = [paginationState EXCEPT ![uid] = sessionAfter(r)]
                /\ hs' = [hs EXCEPT ![h].pc = "d_page", ![h].page = <<r>>]
  /\ UNCHANGED <<trackList, tracks, saved, disk, proc, live, shown, now, lost, snap, started>>
  /\ UNCHANGED dbVars
  /\ UNCHANGED timers

\* the refreshed page was sent: answerCbQuery('Удалено')
DelAnswer(h) ==
  /\ hs[h].pc = "d_page"
  /\ hs' = [hs EXCEPT ![h].pc = "done", ![h].ack = "deleted"]
  /\ UNCHANGED <<trackList, tracks, saved, disk, proc, live, shown, now, paginationState, lost, snap, started>>
  /\ UNCHANGED dbVars
  /\ UNCHANGED timers

\* ------------------------------------------- like, database-backed revision
\* TrackModel.findOne({ id }): the position of the first stored document
\* with that id, 0 for null
dbFindOne(id) ==
  IF \E i \in 1..Len(db) : db[i].id = id
  THEN CHOOSE i \in 1..Len(db) : db[i].id = id /\ \A j \in 1..(i-1) : db[j].id # id
  ELSE 0

\* What tr.save() does to the collection for a document whose only change
\* is to voters.  op = "push": voters.push(uid) was recorded, sent as
\* { $push: { voters: uid }, $inc: { __v: 1 } } matched by _id alone.
\* op = "set": voters.splice() was recorded, sent as { $set: { voters },
\* $inc: { __v: 1 } } matched by _id and the loaded __v; when no document
\* matches, save() rejects with a VersionError.
save(doc, op, uid) ==
  LET i == dbFindOne(doc.id)
  IN IF i = 0 THEN [ok |-> FALSE, db |-> db]
     ELSE IF op = "push"
     THEN [ok |-> TRUE,
           db |-> [db EXCEPT ![i].voters = Append(@, uid), ![i].v = @ + 1]]
     ELSE IF db[i].v = doc.v
     THEN [ok |-> TRUE,
           db |-> [db EXCEPT ![i].voters = doc.voters, ![i].v = @ + 1]]
     ELSE [ok |-> FALSE, db |-> db]

\* the temporary like bar of the presser's last play, when it shows this
\* track: the last of at least two message ids
tempBar(uid, id) ==
  LET tempState == tempPlays[ToString(uid)]
  IN IF tempState # NoPlay /\ tempState.trackId = id /\ Len(tempState.msgIds) > 1
     THEN << tempState.msgIds[Len(tempState.msgIds)] >>
     ELSE <<>>

\* the like button was pressed: findOne is awaited
DbLikeStart(h, u, id) ==
  /\ MayStart(h, FALSE)
  /\ Begin(h, FALSE)
  /\ hs' = [hs EXCEPT ![h] = [Fresh(h, "dblike", u) EXCEPT !.pc = "b_find", !.id = id]]
  /\ UNCHANGED <<trackList, tracks, saved, disk, proc, live, shown, now, paginationState, lost>>
  /\ UNCHANGED dbVars
  /\ UNCHANGED timers

\* findOne came back: the vote is flipped on the handler's own copy of the
\* document and the first reply is awaited
DbLikeFound(h) ==
  /\ hs[h].pc = "b_find"
  /\ LET i == dbFindOne(hs[h].id)
         uid == hs[h].user
     IN IF i = 0
        THEN hs' = [hs EXCEPT ![h].pc = "done", ![h].ack = "notfound"]
        ELSE hs' = [hs EXCEPT
                      ![h].doc = [db[i] EXCEPT !.voters = flipVote(@, uid)],
                      ![h].op = IF indexOf(db[i].voters, uid) >= 1 THEN "set" ELSE "push",
                      ![h].was = uid \in Range(db[i].voters),
                      ![h].pc = IF indexOf(db[i].voters, uid) >= 1 THEN "b_toast" ELSE "b_eff"]
  /\ UNCHANGED <<trackList, tracks, saved, disk, proc, live, shown, now, paginationState, lost, snap, started>>
  /\ UNCHANGED dbVars
  /\ UNCHANGED timers

\* the like effect was sent; the toast is awaited
DbLikeEffect(h) ==
  /\ hs[h].pc = "b_eff"
  /\ hs' = [hs EXCEPT ![h].pc = "b_toast"]
  /\ UNCHANGED <<trackList, tracks, saved, disk, proc, live, shown, now, paginationState, lost, snap, started>>
  /\ UNCHANGED dbVars
  /\ UNCHANGED timers

\* the toast was sent; tr.save() is awaited
DbLikeToast(h) ==
  /\ hs[h].pc = "b_toast"
  /\ hs' = [hs EXCEPT ![h].pc = "b_save"]
  /\ UNCHANGED <<trackList, tracks, saved, disk, proc, live, shown, now, paginationState, lost, snap, started>>
  /\ UNCHANGED dbVars
  /\ UNCHANGED timers

\* where the handler goes once the permanent views are done: the temporary
\* bar is edited, or the action is answered
afterViews(h) ==
  IF tempBar(hs[h].user, hs[h].id) # <<>>
  THEN [hs[h] EXCEPT !.pc = "b_temp"]
  ELSE [hs[h] EXCEPT !.pc = "done", !.ack = "ok"]

\* save() came back.  Rejected: the handler throws, nothing after it runs.
\* Accepted: the bar is built from the handler's copy and the first view is
\* edited.
DbLikeSaved(h) ==
  /\ hs[h].pc = "b_save"
  /\ LET r == save(hs[h].doc, hs[h].op, hs[h].user)
         doc == [hs[h].doc EXCEPT !.v = @ + 1]
     IN /\ db' = r.db
        /\ IF ~r.ok
           THEN hs' = [hs EXCEPT ![h].pc = "failed"]
           ELSE IF doc.messages = <<>>
           THEN hs' = [hs EXCEPT ![h] = [afterViews(h) EXCEPT !.doc = doc,
                                            !.bar = likeBar(doc, hs[h].user)]]
           ELSE hs' = [hs EXCEPT ![h].pc = "b_edit", ![h].doc = doc,
                                 ![h].iter = doc.messages, ![h].k = 1,
                                 ![h].bar = likeBar(doc, hs[h].user)]
  /\ UNCHANGED <<trackList, tracks, saved, disk, proc, live, shown, now, paginationState, lost, snap, started>>
  /\ UNCHANGED tempPlays
  /\ UNCHANGED timers

\* editMessageText on view k came back with outcome o; every error is
\* swallowed and the document's messages are left as they are
DbLikeEdited(h, o) ==
  /\ hs[h].pc = "b_edit"
  /\ LET m == hs[h].iter[hs[h].k]
     IN /\ o = "gone" <=> m \notin live
        /\ shown' = IF o = "ok" THEN [shown EXCEPT ![m] = hs[h].bar] ELSE shown
        /\ IF hs[h].k < Len(hs[h].iter)
           THEN hs' = [hs EXCEPT ![h].k = @ + 1, ![h].res = Append(@, o)]
           ELSE hs' = [hs EXCEPT ![h] = [afterViews(h) EXCEPT !.res = Append(@, o)]]
  /\ UNCHANGED <<trackList, tracks, saved, disk, proc, live, now, paginationState, lost, snap, started>>
  /\ UNCHANGED dbVars
  /\ UNCHANGED timers

\* editMessageText on the temporary bar came back; the action is answered
DbLikeTemp(h, o) ==
  /\ hs[h].pc = "b_temp"
  /\ LET t == tempBar(hs[h].user, hs[h].id)
     IN IF t = <<>>
        THEN UNCHANGED shown
        ELSE /\ o = "gone" <=> t[1] \notin live
             /\ shown' = IF o = "ok" THEN [shown EXCEPT ![t[1]] = hs[h].bar] ELSE shown
  /\ hs' = [hs EXCEPT ![h].pc = "done", ![h].ack = "ok"]
  /\ UNCHANGED <<trackList, tracks, saved, disk, proc, live, now, paginationState, lost, snap, started>>
  /\ UNCHANGED dbVars
  /\ UNCHANGED timers

\* ------------------------------------------------------------- set type
\* the message the type buttons of a track are on (ctx.callbackQuery.message
\* of a type action): the selector its upload sent
selectorOf(ref) ==
  IF ref = 1 THEN <<0, "t1">> ELSE IF ref = 2 THEN <<0, "t2">> ELSE <<ref - 2, "type">>

\* [tr.messages[0], tr.messages[3]].filter(Boolean)
firstAndFourth(ms) ==
  (IF Len(ms) >= 1 THEN <<ms[1]>> ELSE <<>>) \o (IF Len(ms) >= 4 THEN <<ms[4]>> ELSE <<>>)

\* a type button was pressed: findTrackAndCheck, tr.type = type, safeSave();
\* then the selector's deletion is awaited
TypeStart(h, u, id, type, seq) ==
  /\ MayStart(h, seq)
  /\ Begin(h, seq)
  /\ LET tr == findTrack(id)
     IN IF tr = 0
        THEN /\ hs' = [hs EXCEPT ![h] = [Fresh(h, "type", u) EXCEPT !.pc = "done",
                          !.id = id, !.type = type, !.ack = "notfound"]]
             /\ UNCHANGED <<tracks, saved, disk, proc>>
        ELSE /\ selectorOf(tr) \in live
             /\ tracks' = [tracks EXCEPT ![tr].type = type]
             /\ safeSave(trackList, tracks')
             /\ UNCHANGED proc
             /\ hs' = [hs EXCEPT ![h] = [Fresh(h, "type", u) EXCEPT !.pc = "t_del",
                          !.id = id, !.type = type, !.ref = tr,
                          !.was = Len(tracks[tr].messages) > 3,
                          !.upd = tracks[tr].messages, !.wrote = saveResult]]
  /\ UNCHANGED <<trackList, live, shown, now, paginationState, lost>>
  /\ UNCHANGED dbVars
  /\ UNCHANGED timers

\* ctx.deleteMessage() came back (errors swallowed).  With more than three
\* registered messages the second and third are deleted one by one;
\* otherwise the confirmation is sent.
TypeSelectorDeleted(h, o) ==
  /\ hs[h].pc = "t_del"
  /\ LET tr == hs[h].ref
         m == selectorOf(tr)
         ms == tracks[tr].messages
     IN /\ o = "ok" => m \in live
        /\ live' = IF o = "ok" THEN live \ {m} ELSE live
        /\ IF Len(ms) > 3
           THEN hs' = [hs EXCEPT ![h].pc = "t_loop", ![h].iter = SubSeq(ms, 2, 3),
                                 ![h].k = 1, ![h].res = <<o>>]
           ELSE hs' = [hs EXCEPT ![h].pc = "t_ok", ![h].res = <<o>>]
  /\ UNCHANGED <<trackList, tracks, saved, disk, proc, shown, now, paginationState, lost, snap, started>>
  /\ UNCHANGED dbVars
  /\ UNCHANGED timers

\* deleteMessage on message k of tr.messages.slice(1, 3) came back; after
\* the last one tr.messages becomes its first and fourth entries
TypeRetired(h, o) ==
  /\ hs[h].pc = "t_loop"
  /\ LET tr == hs[h].ref
         m == hs[h].iter[hs[h].k]
     IN /\ o = "ok" => m \in live
        /\ live' = IF o = "ok" THEN live \ {m} ELSE live
        /\ IF hs[h].k < Len(hs[h].iter)
           THEN /\ hs' = [hs EXCEPT ![h].k = @ + 1, ![h].res = Append(@, o)]
                /\ UNCHANGED tracks
           ELSE /\ hs' = [hs EXCEPT ![h].pc = "t_ok", ![h].res = Append(@, o)]
                /\ tracks' = [tracks EXCEPT ![tr].messages = firstAndFourth(@)]
  /\ UNCHANGED <<trackList, saved, disk, proc, shown, now, paginationState, lost, snap, started>>
  /\ UNCHANGED dbVars
  /\ UNCHANGED timers

\* '✔️ Тип установлен' was sent: deleteLater(ok), answerCbQuery()
TypeAnswered(h) ==
  /\ hs[h].pc = "t_ok"
  /\ hs' = [hs EXCEPT ![h].pc = "done", ![h].ack = "ok"]
  /\ UNCHANGED <<trackList, tracks, saved, disk, proc, live, shown, now, paginationState, lost, snap, started>>
  /\ UNCHANGED dbVars
  /\ UNCHANGED timers

\* ----------------------------------------------------------------- play
\* const origin = (tr.messages || [])[0]: the first registered message, held
\* as a sequence of at most one
originOf(tr) == SubSeq(tracks[tr].messages, 1, Min2(1, Len(tracks[tr].messages)))

\* (mutation) the session is left in place
clearSession_keep(uid) == UNCHANGED tempPlays
\* tempPlays.delete(uid)
clearSession(uid) == tempPlays' = [tempPlays EXCEPT ![uid] = NoPlay]

\* tempPlays.set(uid, { trackId, msgIds: newIds }) and the setTimeout
setSession(h, newIds) ==
  /\ tempPlays' = [tempPlays EXCEPT ![ToString(hs[h].user)] =
                     [trackId |-> hs[h].id, msgIds |-> newIds]]
  /\ timers' = [timers EXCEPT ![h] =
                  [NoTimer EXCEPT !.st = "armed", !.uid = ToString(hs[h].user),
                                  !.trackId = hs[h].id]]

\* a play button was pressed: findTrackAndCheck, then the messages of the
\* user's previous session, if it has any, are deleted one by one
PlayStart(h, u, id, seq) ==
  /\ MayStart(h, seq)
  /\ seq => \A p \in Plays : timers[p].st # "run"
  /\ Begin(h, seq)
  /\ LET tr == findTrack(id)
         prev == tempPlays[ToString(u)]
         base == [Fresh(h, "play", u) EXCEPT !.id = id, !.ref = tr]
     IN IF tr = 0
        THEN hs' = [hs EXCEPT ![h] = [base EXCEPT !.pc = "done", !.ack = "notfound"]]
        ELSE IF prev # NoPlay /\ Len(prev.msgIds) > 0
        THEN hs' = [hs EXCEPT ![h] = [base EXCEPT !.pc = "p_prev", !.iter = prev.msgIds,
                                                   !.k = 1]]
        ELSE hs' = [hs EXCEPT ![h] = [base EXCEPT !.pc = "p_copy", !.origin = originOf(tr)]]
  /\ UNCHANGED <<trackList, tracks, saved, disk, proc, live, shown, now, paginationState, lost>>
  /\ UNCHANGED <<db, tempPlays, timers>>

\* deleteMessage on message k of the previous session came back (errors
\* swallowed); after the last one the session is cleared
PlayPrevDeleted(h, o) ==
  /\ hs[h].pc = "p_prev"
  /\ LET m == hs[h].iter[hs[h].k]
     IN /\ o = "ok" => m \in live
        /\ live' = IF o = "ok" THEN live \ {m} ELSE live
        /\ IF hs[h].k < Len(hs[h].iter)
           THEN /\ hs' = [hs EXCEPT ![h].k = @ + 1, ![h].res = Append(@, o)]
                /\ UNCHANGED tempPlays
           ELSE /\ hs' = [hs EXCEPT ![h].pc = "p_copy", ![h].res = Append(@, o),
                                    ![h].origin = originOf(hs[h].ref)]
                /\ clearSession(ToString(hs[h].user))
  /\ UNCHANGED <<trackList, tracks, saved, disk, proc, shown, now, paginationState, lost, snap, started>>
  /\ UNCHANGED <<db, timers>>

\* copyMessage of the origin (or the fallback reply) came back.  "ok": the
\* copy is in the chat and the like bar is sent next.  "fail": the catch
\* leaves newIds as it is; the session is recorded and the timer set.
PlayCopied(h, o) ==
  /\ hs[h].pc = "p_copy"
  /\ LET tr == hs[h].ref
     IN /\ (o = "ok" /\ hs[h].origin # <<>>) => hs[h].origin[1] \in live
        /\ IF o = "ok"
           THEN /\ live' = live \cup {<<h, "copy">>}
                /\ hs' = [hs EXCEPT ![h].pc = "p_bar", ![h].upd = << <<h, "copy">> >>,
                                    ![h].bar = likeBar(tracks[tr], hs[h].user)]
                /\ UNCHANGED <<tempPlays, timers>>
           ELSE /\ hs' = [hs EXCEPT ![h].pc = "p_ans"]
                /\ setSession(h, <<>>)
                /\ UNCHANGED live
  /\ UNCHANGED <<trackList, tracks, saved, disk, proc, shown, now, paginationState, lost, snap, started>>
  /\ UNCHANGED db

\* the reply with the like bar came back; the session is recorded with the
\* ids collected so far and the expiry timer is set
PlayBarSent(h, o) ==
  /\ hs[h].pc = "p_bar"
  /\ LET newIds == IF o = "ok" THEN Append(hs[h].upd, <<h, "bar">>) ELSE hs[h].upd
     IN /\ live' = IF o = "ok" THEN live \cup {<<h, "bar">>} ELSE live
        /\ shown' = IF o = "ok" THEN [shown EXCEPT ![<<h, "bar">>] = hs[h].bar] ELSE shown
        /\ hs' = [hs EXCEPT ![h].pc = "p_ans", ![h].upd = newIds]
        /\ setSession(h, newIds)
  /\ UNCHANGED <<trackList, tracks, saved, disk, proc, now, paginationState, lost, snap, started>>
  /\ UNCHANGED db

\* answerCbQuery() came back
PlayAnswered(h) ==
  /\ hs[h].pc = "p_ans"
  /\ hs' = [hs EXCEPT ![h].pc = "done", ![h].ack = "ok"]
  /\ UNCHANGED <<trackList, tracks, saved, disk, proc, live, shown, now, paginationState, lost, snap, started>>
  /\ UNCHANGED <<db, tempPlays, timers>>

\* the expiry callback of play p starts: when the user's session is for the
\* track of p, its messages are deleted one by one (an empty session is
\* cleared at once); otherwise the callback does nothing
TimerFires(p, seq) ==
  /\ timers[p].st = "armed"
  /\ seq => /\ \A g \in Handlers : Finished(g)
            /\ \A q \in Plays : timers[q].st # "run"
  /\ LET cur == tempPlays[timers[p].uid]
     IN IF cur # NoPlay /\ cur.trackId = timers[p].trackId
        THEN IF cur.msgIds = <<>>
             THEN /\ clearSession(timers[p].uid)
                  /\ timers' = [timers EXCEPT ![p].st = "fired"]
             ELSE /\ timers' = [timers EXCEPT ![p].st = "run", ![p].iter = cur.msgIds,
                                              ![p].k = 1]
                  /\ UNCHANGED tempPlays
        ELSE /\ timers' = [timers EXCEPT ![p].st = "fired"]
             /\ UNCHANGED tempPlays
  /\ UNCHANGED <<trackList, tracks, saved, disk, proc, live, shown, now, hs, paginationState, lost, snap, started>>
  /\ UNCHANGED db

\* deleteMessage on message k of the expiring session came back; after the
\* last one the callback clears the user's session
TimerDeleted(p, o) ==
  /\ timers[p].st = "run"
  /\ LET m == timers[p].iter[timers[p].k]
     IN /\ o = "ok" => m \in live
        /\ live' = IF o = "ok" THEN live \ {m} ELSE live
        /\ IF timers[p].k < Len(timers[p].iter)
           THEN /\ timers' = [timers EXCEPT ![p].k = @ + 1]
                /\ UNCHANGED tempPlays
           ELSE /\ timers' = [timers EXCEPT ![p].st = "fired"]
                /\ clearSession(timers[p].uid)
  /\ UNCHANGED <<trackList, tracks, saved, disk, proc, shown, now, hs, paginationState, lost, snap, started>>
  /\ UNCHANGED db

\* ------------------------- play, revision that removes unresolvable tracks
\* the session this revision's showTracks stores: it is kept for an empty list
sessionKept(shownPage) == [key |-> shownPage.key, page |-> shownPage.page]

\* trackList.splice(idx, 1); safeSave()
orphanRemove(h, idx) ==
  /\ trackList' = splice1(trackList, idx)
  /\ safeSave(trackList', tracks)
  /\ UNCHANGED proc

\* trackList.find; the messages of the user's previous session, if it has
\* any, are deleted one by one
Play1Start(h, u, id, seq) ==
  /\ MayStart(h, seq)
  /\ Begin(h, seq)
  /\ LET tr == findTrack(id)
         prev == tempPlays[ToString(u)]
         base == [Fresh(h, "play1", u) EXCEPT !.id = id, !.ref = tr]
     IN IF tr = 0
        THEN hs' = [hs EXCEPT ![h] = [base EXCEPT !.pc = "done", !.ack = "notfound"]]
        ELSE IF prev # NoPlay /\ Len(prev.msgIds) > 0
        THEN hs' = [hs EXCEPT ![h] = [base EXCEPT !.pc = "q_prev", !.iter = prev.msgIds,
                                                   !.k = 1]]
        ELSE hs' = [hs EXCEPT ![h] = [base EXCEPT !.pc = "q_copy", !.origin = originOf(tr)]]
  /\ UNCHANGED <<trackList, tracks, saved, disk, proc, live, shown, now, paginationState, lost>>
  /\ UNCHANGED <<db, tempPlays, timers>>

Play1PrevDeleted(h, o) ==
  /\ hs[h].pc = "q_prev"
  /\ LET m == hs[h].iter[hs[h].k]
     IN /\ o = "ok" => m \in live
        /\ live' = IF o = "ok" THEN live \ {m} ELSE live
        /\ IF hs[h].k < Len(hs[h].iter)
           THEN /\ hs' = [hs EXCEPT ![h].k = @ + 1, ![h].res = Append(@, o)]
                /\ UNCHANGED tempPlays
           ELSE /\ hs' = [hs EXCEPT ![h].pc = "q_copy", ![h].res = Append(@, o),
                                    ![h].origin = originOf(hs[h].ref)]
                /\ clearSession(ToString(hs[h].user))
  /\ UNCHANGED <<trackList, tracks, saved, disk, proc, shown, now, paginationState, lost, snap, started>>
  /\ UNCHANGED <<db, timers>>

\* copyMessage of the origin (or the fallback reply) came back.  "ok": the
\* like bar is sent next.  "gone": 'message to copy not found'; the track is
\* looked up again by id and, when found, spliced out and the list saved,
\* then the alert is awaited; when not found only an alert is sent.
\* "err": any other failure; an alert is sent.
Play1Copied(h, o) ==
  /\ hs[h].pc = "q_copy"
  /\ o = "ok" => (hs[h].origin = <<>> \/ hs[h].origin[1] \in live)
  /\ o = "gone" => (hs[h].origin # <<>> /\ hs[h].origin[1] \notin live)
  /\ LET idx == findIndex(hs[h].id)
     IN CASE o = "ok" ->
               /\ live' = live \cup {<<h, "copy">>}
               /\ hs' = [hs EXCEPT ![h].pc = "q_bar", ![h].upd = << <<h, "copy">> >>,
                                   ![h].bar = likeBar(tracks[hs[h].ref], hs[h].user)]
               /\ UNCHANGED <<trackList, saved, disk, proc>>
          [] o = "gone" /\ idx # -1 ->
               /\ orphanRemove(h, idx)
               /\ hs' = [hs EXCEPT ![h].pc = "q_alert", ![h].idx = idx, ![h].op = "gone",
                                   ![h].wrote = saveResult]
               /\ UNCHANGED live
          [] o = "gone" /\ idx = -1 ->
               /\ hs' = [hs EXCEPT ![h].pc = "q_ans", ![h].ack = "unavailable",
                                   ![h].op = "gone"]
               /\ UNCHANGED <<trackList, saved, disk, proc, live>>
          [] OTHER ->
               /\ hs' = [hs EXCEPT ![h].pc = "q_ans", ![h].ack = "failed"]
               /\ UNCHANGED <<trackList, saved, disk, proc, live>>
  /\ UNCHANGED <<tracks, shown, now, paginationState, lost, snap, started>>
  /\ UNCHANGED <<db, tempPlays, timers>>

\* the reply with the like bar came back: on success the session is recorded
\* (this revision sets no timer), on failure an alert is sent and none is
Play1BarSent(h, o) ==
  /\ hs[h].pc = "q_bar"
  /\ IF o = "ok"
     THEN /\ live' = live \cup {<<h, "bar">>}
          /\ shown' = [shown EXCEPT ![<<h, "bar">>] = hs[h].bar]
          /\ hs' = [hs EXCEPT ![h].pc = "q_ans", ![h].ack = "ok",
                              ![h].upd = Append(@, <<h, "bar">>)]
          /\ tempPlays' = [tempPlays EXCEPT ![ToString(hs[h].user)] =
                             [trackId |-> hs[h].id,
                              msgIds |-> Append(hs[h].upd, <<h, "bar">>)]]
     ELSE /\ hs' = [hs EXCEPT ![h].pc = "q_ans", ![h].ack = "failed"]
          /\ UNCHANGED <<live, shown, tempPlays>>
  /\ UNCHANGED <<trackList, tracks, saved, disk, proc, now, paginationState, lost, snap, started>>
  /\ UNCHANGED <<db, timers>>

\* the alert about the removed track was shown: refreshPagination(ctx)
Play1Alerted(h) ==
  /\ hs[h].pc = "q_alert"
  /\ LET uid == ToString(hs[h].user)
         state == paginationState[uid]
     IN IF state = NoPage
        THEN /\ hs' = [hs EXCEPT ![h].pc = "done", ![h].ack = "removed"]
             /\ UNCHANGED paginationState
        ELSE LET r == showTracks(pickListByKey(state.key, hs[h].user),
                                 titleMap(state.key), state.page)
             IN /\ paginationState' = [paginationState EXCEPT ![uid] = sessionKept(r)]
                /\ hs' = [hs EXCEPT ![h].pc = "q_ans", ![h].ack = "removed",
                                    ![h].page = <<r>>]
  /\ UNCHANGED <<trackList, tracks, saved, disk, proc, live, shown, now, lost, snap, started>>
  /\ UNCHANGED <<db, tempPlays, timers>>

\* the last await of the handler (answerCbQuery, or the refreshed page) is over
Play1Answered(h) ==
  /\ hs[h].pc = "q_ans"
  /\ hs' = [hs EXCEPT ![h].pc = "done"]
  /\ UNCHANGED <<trackList, tracks, saved, disk, proc, live, shown, now, paginationState, lost, snap, started>>
  /\ UNCHANGED <<db, tempPlays, timers>>

\* ------------------------------------------------------------ page button
\* parseInt of the (\d+) group of the button data: decimal digits, leading
\* zeros allowed
RECURSIVE parseInt(_)
parseInt(digits) ==
  IF digits = <<>> THEN 0
  ELSE parseInt(SubSeq(digits, 1, Len(digits) - 1)) * 10 + digits[Len(digits)]

\* a page button was pressed: parseInt, pickListByKey, showTracks up to its
\* reply; .k keeps the page asked for, .iter the list
PageStart(h, u, key, digits) ==
  /\ MayStart(h, FALSE)
  /\ Begin(h, FALSE)
  /\ LET page == parseInt(digits)
         list == pickListByKey(key, u)
         r == showTracks(list, titleMap(key), page)
     IN /\ paginationState' = [paginationState EXCEPT ![ToString(u)] = sessionAfter(r)]
        /\ hs' = [hs EXCEPT ![h] = [Fresh(h, "page", u) EXCEPT !.pc = "g_page", !.k = page,
                                       !.iter = list, !.page = <<r>>]]
  /\ UNCHANGED <<trackList, tracks, saved, disk, proc, live, shown, now, lost>>
  /\ UNCHANGED <<db, tempPlays, timers>>

\* the page was sent: answerCbQuery()
PageAnswered(h) ==
  /\ hs[h].pc = "g_page"
  /\ hs' = [hs EXCEPT ![h].pc = "done", ![h].ack = "ok"]
  /\ UNCHANGED <<trackList, tracks, saved, disk, proc, live, shown, now, paginationState, lost, snap, started>>
  /\ UNCHANGED <<db, tempPlays, timers>>

\* ------------------- upload, revision whose duplicate test reads the title
\* A file name is a sequence of characters; the ones /[\\/:*?"<>|]+/g matches
\* that occur in the names below:
Forbidden == {"/", ":"}
\* name.replace(/[\\/:*?"<>|]+/g, '_'): every maximal run of forbidden
\* characters becomes one underscore
RECURSIVE sanitize(_)
sanitize(name) ==
  IF name = <<>> THEN <<>>
  ELSE LET rest == sanitize(SubSeq(name, 1, Len(name) - 1))
           c == name[Len(name)]
       IN IF c \notin Forbidden THEN Append(rest, c)
          ELSE IF Len(name) > 1 /\ name[Len(name) - 1] \in Forbidden THEN rest
          ELSE Append(rest, "_")
\* String.prototype.toLowerCase on the letters that occur
toLowerCase(name) ==
  [i \in 1..Len(name) |-> CASE name[i] = "A" -> "a" [] name[i] = "B" -> "b"
                            [] OTHER -> name[i]]
\* file.file_name || `track_${Date.now()}.mp3`, sanitized
safeNameOf(f, t) == sanitize(IF f.name = <<>> THEN <<"track_", ToString(t), ".mp3">> ELSE f.name)

\* the duplicate test of this revision
exists2(f, safeName) ==
  \E i \in 1..Len(trackList) :
     \/ tracks[trackList[i]].fileUniqueId = f.fuid
     \/ tracks[trackList[i]].fileId = f.fileId
     \/ toLowerCase(tracks[trackList[i]].title) = toLowerCase(safeName)

\* an audio or document arrives: safeName, the duplicate test, then either the
\* warning or the track object and its confirmation are awaited
Upload2Start(h, u, f) ==
  /\ MayStart(h, FALSE)
  /\ live' = live \cup {<<h, "audio">>}
  /\ Begin(h, FALSE)
  /\ LET safeName == safeNameOf(f, now)
         base == [Fresh(h, "upload2", u) EXCEPT
                    !.file = [fileId |-> f.fileId, fuid |-> f.fuid]]
     IN IF exists2(f, safeName)
        THEN /\ hs' = [hs EXCEPT ![h] = [base EXCEPT !.pc = "v_warn"]]
             /\ UNCHANGED tracks
        ELSE /\ tracks' = [tracks EXCEPT ![NewRef(h)] =
                             [title |-> safeName] @@ newTrack(f, u, now, <<h, "audio">>)]
             /\ hs' = [hs EXCEPT ![h] = [base EXCEPT !.pc = "u_added", !.ref = NewRef(h),
                                                      !.id = <<f.fuid, now>>]]
  /\ UNCHANGED <<trackList, saved, disk, proc, shown, now, paginationState, lost>>
  /\ UNCHANGED <<db, tempPlays, timers>>

\* the warning was sent: deleteLater(warn), then the uploaded message is
\* deleted (errors swallowed)
Upload2Warned(h) ==
  /\ hs[h].pc = "v_warn"
  /\ hs' = [hs EXCEPT ![h].pc = "v_del"]
  /\ UNCHANGED <<trackList, tracks, saved, disk, proc, live, shown, now, paginationState, lost, snap, started>>
  /\ UNCHANGED <<db, tempPlays, timers>>

Upload2Deleted(h, o) ==
  /\ hs[h].pc = "v_del"
  /\ o = "ok" => <<h, "audio">> \in live
  /\ live' = IF o = "ok" THEN live \ {<<h, "audio">>} ELSE live
  /\ hs' = [hs EXCEPT ![h].pc = "done", ![h].ack = "duplicate"]
  /\ UNCHANGED <<trackList, tracks, saved, disk, proc, shown, now, paginationState, lost, snap, started>>
  /\ UNCHANGED <<db, tempPlays, timers>>


\* ------------------------------------------------------- snapshot medium
\* from now on fs.writeFileSync throws (disk full, file not writable); the
\* file keeps what it holds
DiskFails ==
  /\ disk = "ok"
  /\ proc = Launched
  /\ disk' = "fail"
  /\ UNCHANGED proc
  /\ UNCHANGED <<trackList, tracks, saved, live, shown, now, hs, paginationState, lost,
                 snap, started>>
  /\ UNCHANGED dbVars
  /\ UNCHANGED timers


\* ---------------------------------------------------- crash and restart
\* what the start-up code reads: JSON.parse throws on a torn file and the
\* catch leaves trackList = []
loadFile == IF disk = "torn" THEN <<>> ELSE saved

\* the process dies and is started again: the handlers in flight are gone,
\* the Maps and the pending setTimeout callbacks with them; the store is
\* built from the file, every record a fresh object
restart(file) ==
  /\ trackList' = [i \in 1..Len(file) |-> i]
  /\ tracks' = [r \in Refs |-> IF r <= Len(file) THEN file[r] ELSE NoTrack]
  /\ hs' = [h \in Handlers |-> IF hs[h].pc \in {"idle", "done", "failed"}
                               THEN hs[h] ELSE [hs[h] EXCEPT !.pc = "killed"]]
  /\ paginationState' = [u \in DOMAIN paginationState |-> NoPage]
  /\ tempPlays' = [u \in DOMAIN tempPlays |-> NoPlay]
  /\ timers' = [p \in Plays |-> NoTimer]
  /\ UNCHANGED <<now, lost, snap, started, db>>

\* the process dies between two writes of the file
CrashRestart ==
  /\ restart(loadFile)
  /\ UNCHANGED <<saved, disk, proc, live, shown>>

\* the process dies inside the fs.writeFileSync of safeSave() that handler h
\* makes after its toast: the file was truncated and holds the beginning of
\* the new text
CrashInSave(h) ==
  /\ hs[h].pc = "l_toast"
  /\ disk = "ok"
  /\ proc = Launched
  /\ disk' = "torn"
  /\ UNCHANGED proc
  /\ restart(<<>>)
  /\ UNCHANGED <<saved, live, shown>>


\* ---------------------------------------------------- global error handler
\* errors bot.catch may be handed: network errors carry a code, an error of
\* the Bot API carries its numeric error_code, a plain Error carries none
Errs == { [code |-> "ECONNRESET", message |-> "reset"],
          [code |-> "ETIMEDOUT", message |-> "timeout"],
          [code |-> "EFATAL", message |-> "fatal"],
          [code |-> "400", message |-> "Bad Request"],
          [code |-> "", message |-> "undefined is not a function"] }

\* what the global handler and process.exit leave alone
allVarsButProc == <<trackList, tracks, saved, live, shown, now, hs, paginationState,
                    lost, snap, started, db, tempPlays, timers, disk>>

\* console.error('⚠️ Ошибка:', err.code || err.message)
logged(err) == IF err.code # "" THEN err.code ELSE err.message

\* (mutation) the error is logged and nothing else
botCatch_logOnly(err) ==
  /\ proc.st = "running"
  /\ Len(proc.log) < MaxCaught
  /\ proc' = [proc EXCEPT !.log = Append(@, logged(err))]
  /\ UNCHANGED allVarsButProc

\* bot.catch(err => ...): log; for the three connectivity codes
\* setTimeout(() => process.exit(1), 10000)
caught(err) ==
  [proc EXCEPT !.log = Append(@, logged(err)),
               !.exits = IF err.code \in {"ECONNRESET", "ETIMEDOUT", "EFATAL"}
                         THEN @ + 1 ELSE @]
botCatch(err) ==
  /\ proc.st = "running"
  /\ Len(proc.log) < MaxCaught
  /\ proc' = caught(err)
  /\ UNCHANGED allVarsButProc

\* a pending exit timer fires: process.exit(1)
ExitTimerFires ==
  /\ proc.st = "running"
  /\ proc.exits > 0
  /\ proc' = [proc EXCEPT !.st = "exited", !.code = 1, !.exits = @ - 1]
  /\ UNCHANGED allVarsButProc


\* ------------------------------------------------ sends that are rejected
\* ctx.reply of the like effect or of the toast is rejected: the handler
\* throws at that await, nothing after it runs, bot.catch gets the error
LikeNoticeFailed(h, err) ==
  /\ hs[h].pc \in {"l_eff", "l_toast"}
  /\ hs' = [hs EXCEPT ![h].pc = "failed"]
  /\ proc' = caught(err)
  /\ UNCHANGED <<trackList, tracks, saved, disk, live, shown, now, paginationState, lost,
                 snap, started>>
  /\ UNCHANGED dbVars
  /\ UNCHANGED timers


\* (mutation) the catch block stores the track the handler had built
UploadSendFailed_afterPush(h) ==
  /\ hs[h].pc \in {"u_warn", "u_added", "u_type", "u_like"}
  /\ hs' = [hs EXCEPT ![h].pc = "done", ![h].ack = "failed", ![h].wrote = saveResult]
  /\ trackList' = IF hs[h].ref = 0 THEN trackList ELSE Append(trackList, hs[h].ref)
  /\ safeSave(trackList', tracks)
  /\ UNCHANGED <<tracks, proc, live, shown, now, paginationState, lost, snap, started>>
  /\ UNCHANGED dbVars
  /\ UNCHANGED timers

\* a ctx.reply of the upload handler is rejected: the catch block logs the
\* error and sends '❌ Не удалось обработать файл.' without awaiting it
UploadSendFailed(h) ==
  /\ hs[h].pc \in {"u_warn", "u_added", "u_type", "u_like"}
  /\ hs' = [hs EXCEPT ![h].pc = "done", ![h].ack = "failed"]
  /\ UNCHANGED <<trackList, tracks, saved, disk, proc, live, shown, now, paginationState,
                 lost, snap, started>>
  /\ UNCHANGED dbVars
  /\ UNCHANGED timers

\* ------------------------------------------------------------ environment
Tick ==
  /\ now < 1 + MaxTicks
  /\ now' = now + 1
  /\ UNCHANGED <<trackList, tracks, saved, disk, proc, live, shown, hs, paginationState, lost, snap, started>>
  /\ UNCHANGED dbVars
  /\ UNCHANGED timers

\* a message is deleted by its chat's user, or by a deleteLater timer
LoseMessage(m) ==
  /\ m \in live
  /\ lost < MaxLost
  /\ live' = live \ {m}
  /\ lost' = lost + 1
  /\ UNCHANGED <<trackList, tracks, saved, disk, proc, shown, now, hs, paginationState, snap, started>>
  /\ UNCHANGED dbVars
  /\ UNCHANGED timers

\* ------------------------------------------------------------------ init
\* Stores an earlier run of the bot leaves behind: track 1 uploaded by user 1
\* and liked by some users, its confirmation gone and pruned (three views);
\* track 2 uploaded by user 2 and typed as a cover (two views).
InitTrack1(v) ==
  [id |-> <<"uA", 0>>, fileId |-> "fA", fileUniqueId |-> "uA", userId |-> 1,
   voters |-> v, createdAt |-> 0, type |-> "original",
   messages |-> << <<0, "a1">>, <<0, "t1">>, <<0, "l1">> >>]
InitTrack2 ==
  [id |-> <<"uB", 0>>, fileId |-> "fB", fileUniqueId |-> "uB", userId |-> 2,
   voters |-> <<>>, createdAt |-> 0, type |-> "cover",
   messages |-> << <<0, "a2">>, <<0, "l2">> >>]

InitHeap(v) == [r \in Refs |-> IF r = 1 THEN InitTrack1(v)
                               ELSE IF r = 2 THEN InitTrack2 ELSE NoTrack]

InitWith(lists, voterss, pages) ==
  /\ trackList \in lists
  /\ \E v \in voterss : tracks = InitHeap(v)
  /\ saved = Snapshot(trackList, tracks)
  /\ live = UNION { Range(tracks[trackList[i]].messages) : i \in 1..Len(trackList) }
  /\ shown = [m \in AllMsgs |->
               IF \E i \in 1..Len(trackList) :
                     m = tracks[trackList[i]].messages[Len(tracks[trackList[i]].messages)]
               THEN LET r == trackList[CHOOSE i \in 1..Len(trackList) :
                          m = tracks[trackList[i]].messages[Len(tracks[trackList[i]].messages)]]
                    IN likeBar(tracks[r], tracks[r].userId)
               ELSE NoBar]
  /\ now = 1
  /\ hs = [h \in Handlers |-> Idle]
  /\ paginationState \in [{ToString(u) : u \in Users} -> pages]
  /\ lost = 0
  /\ snap = [h \in Handlers |-> NoStore]
  /\ started = 0
  /\ db = <<>>
  /\ tempPlays = [u \in {ToString(u) : u \in Users} |-> NoPlay]
  /\ timers = [p \in Plays |-> NoTimer]
  /\ disk = "ok"
  /\ proc = Launched

\* a message some track in the heap lists among its views
Registered(m) == \E r \in Refs : m \in Range(tracks[r].messages)

Outcomes == {"ok", "gone", "err"}
DelOutcomes == {"ok", "fail"}
AllPage == [key |-> "all", page |-> 1]

\* -- interleaved uploads
InitUp == InitWith({<<>>, <<1>>}, {<<>>}, {NoPage})
NextUp ==
  \/ \E h \in Handlers, u \in Users, f \in Files : UploadStart(h, u, f, FALSE)
  \/ \E h \in Handlers : UploadWarned(h)
  \/ \E h \in Handlers : UploadAdded(h)
  \/ \E h \in Handlers : UploadTyped(h)
  \/ \E h \in Handlers : UploadLiked(h)
  \/ Tick
SpecUp == InitUp /\ [][NextUp]_vars

\* -- interleaved like toggles, with messages disappearing
InitLike == InitWith({<<1>>, <<1, 2>>}, {<<>>, <<2>>, <<2, 1>>}, {NoPage})
NextLike ==
  \/ \E h \in Handlers, u \in Users, id \in KnownIds : LikeStart(h, u, id, FALSE)
  \/ \E h \in Handlers : LikeEffect(h)
  \/ \E h \in Handlers : LikeSave(h)
  \/ \E h \in Handlers, o \in Outcomes : LikeEdited(h, o)
  \/ \E m \in AllMsgs : Registered(m) /\ LoseMessage(m)
SpecLike == InitLike /\ [][NextLike]_vars

\* -- interleaved deletes
InitDel == InitWith({<<1>>, <<1, 2>>}, {<<>>, <<2>>}, {NoPage, AllPage})
NextDel ==
  \/ \E h \in Handlers, u \in Users, id \in KnownIds : DelStart(h, u, id, FALSE)
  \/ \E h \in Handlers, o \in DelOutcomes : DelTornDown(h, o)
  \/ \E h \in Handlers : DelRefresh(h)
  \/ \E h \in Handlers : DelAnswer(h)
  \/ \E h \in Handlers, u \in Users, id \in KnownIds : LikeStart(h, u, id, FALSE)
  \/ \E h \in Handlers : LikeEffect(h)
  \/ \E h \in Handlers : LikeSave(h)
  \/ \E h \in Handlers, o \in Outcomes : LikeEdited(h, o)
SpecDel == InitDel /\ [][NextDel]_vars

\* -- updates handled one at a time
InitSeq == InitWith({<<1>>, <<1, 2>>}, {<<>>, <<2>>, <<2, 1>>}, {AllPage})
NextSeq ==
  \/ \E h \in Handlers, u \in Users, f \in Files : UploadStart(h, u, f, TRUE)
  \/ \E h \in Handlers : UploadWarned(h)
  \/ \E h \in Handlers : UploadAdded(h)
  \/ \E h \in Handlers : UploadTyped(h)
  \/ \E h \in Handlers : UploadLiked(h)
  \/ \E h \in Handlers, u \in Users, id \in KnownIds : LikeStart(h, u, id, TRUE)
  \/ \E h \in Handlers : LikeEffect(h)
  \/ \E h \in Handlers : LikeSave(h)
  \/ \E h \in Handlers, o \in Outcomes : LikeEdited(h, o)
  \/ \E h \in Handlers, u \in Users, id \in KnownIds : DelStart(h, u, id, TRUE)
  \/ \E h \in Handlers, o \in DelOutcomes : DelTornDown(h, o)
  \/ \E h \in Handlers : DelRefresh(h)
  \/ \E h \in Handlers : DelAnswer(h)
  \/ Tick
  \/ \E m \in AllMsgs : Registered(m) /\ LoseMessage(m)
SeqSpec == InitSeq /\ [][NextSeq]_vars

\* -- every file-backed handler, interleaved
Init == InitWith({<<1>>}, {<<2>>}, {AllPage})
Next ==
  \/ \E h \in Handlers, u \in Users, f \in Files : UploadStart(h, u, f, FALSE)
  \/ \E h \in Handlers : UploadWarned(h)
  \/ \E h \in Handlers : UploadAdded(h)
  \/ \E h \in Handlers : UploadTyped(h)
  \/ \E h \in Handlers : UploadLiked(h)
  \/ \E h \in Handlers, u \in Users, id \in KnownIds : LikeStart(h, u, id, FALSE)
  \/ \E h \in Handlers : LikeEffect(h)
  \/ \E h \in Handlers : LikeSave(h)
  \/ \E h \in Handlers, o \in Outcomes : LikeEdited(h, o)
  \/ \E h \in Handlers, u \in Users, id \in KnownIds : DelStart(h, u, id, FALSE)
  \/ \E h \in Handlers, o \in DelOutcomes : DelTornDown(h, o)
  \/ \E h \in Handlers : DelRefresh(h)
  \/ \E h \in Handlers : DelAnswer(h)
  \/ Tick
  \/ \E m \in AllMsgs : Registered(m) /\ LoseMessage(m)
Spec == Init /\ [][Next]_vars

\* -- plays with their expiry callbacks, and like toggles, interleaved
InitPlay == InitWith({<<1, 2>>}, {<<>>}, {NoPage})
NextPlay ==
  \/ \E h \in Handlers, u \in Users, id \in KnownIds : PlayStart(h, u, id, FALSE)
  \/ \E h \in Handlers, o \in DelOutcomes : PlayPrevDeleted(h, o)
  \/ \E h \in Handlers, o \in DelOutcomes : PlayCopied(h, o)
  \/ \E h \in Handlers, o \in DelOutcomes : PlayBarSent(h, o)
  \/ \E h \in Handlers : PlayAnswered(h)
  \/ \E p \in Plays : TimerFires(p, FALSE)
  \/ \E p \in Plays, o \in DelOutcomes : TimerDeleted(p, o)
  \/ \E h \in Handlers, u \in Users, id \in KnownIds : LikeStart(h, u, id, FALSE)
  \/ \E h \in Handlers : LikeEffect(h)
  \/ \E h \in Handlers : LikeSave(h)
  \/ \E h \in Handlers, o \in Outcomes : LikeEdited(h, o)
SpecPlay == InitPlay /\ [][NextPlay]_vars

\* -- plays and expiry callbacks, one at a time
NextSeqPlay ==
  \/ \E h \in Handlers, u \in Users, id \in KnownIds : PlayStart(h, u, id, TRUE)
  \/ \E h \in Handlers, o \in DelOutcomes : PlayPrevDeleted(h, o)
  \/ \E h \in Handlers, o \in DelOutcomes : PlayCopied(h, o)
  \/ \E h \in Handlers, o \in DelOutcomes : PlayBarSent(h, o)
  \/ \E h \in Handlers : PlayAnswered(h)
  \/ \E p \in Plays : TimerFires(p, TRUE)
  \/ \E p \in Plays, o \in DelOutcomes : TimerDeleted(p, o)
SeqPlay == InitPlay /\ [][NextSeqPlay]_vars

\* -- plays of the revision that removes unresolvable tracks, interleaved,
\* with origin messages disappearing
InitPlay1 == InitWith({<<1>>, <<1, 2>>}, {<<>>}, {NoPage, AllPage})
NextPlay1 ==
  \/ \E h \in Handlers, u \in Users, id \in KnownIds : Play1Start(h, u, id, FALSE)
  \/ \E h \in Handlers, o \in DelOutcomes : Play1PrevDeleted(h, o)
  \/ \E h \in Handlers, o \in Outcomes : Play1Copied(h, o)
  \/ \E h \in Handlers, o \in DelOutcomes : Play1BarSent(h, o)
  \/ \E h \in Handlers : Play1Alerted(h)
  \/ \E h \in Handlers : Play1Answered(h)
  \/ \E m \in AllMsgs : Registered(m) /\ LoseMessage(m)
SpecPlay1 == InitPlay1 /\ [][NextPlay1]_vars

\* -- the same, one at a time
NextSeqPlay1 ==
  \/ \E h \in Handlers, u \in Users, id \in KnownIds : Play1Start(h, u, id, TRUE)
  \/ \E h \in Handlers, o \in DelOutcomes : Play1PrevDeleted(h, o)
  \/ \E h \in Handlers, o \in Outcomes : Play1Copied(h, o)
  \/ \E h \in Handlers, o \in DelOutcomes : Play1BarSent(h, o)
  \/ \E h \in Handlers : Play1Alerted(h)
  \/ \E h \in Handlers : Play1Answered(h)
  \/ \E m \in AllMsgs : Registered(m) /\ LoseMessage(m)
SeqPlay1 == InitPlay1 /\ [][NextSeqPlay1]_vars

\* -- page buttons over stores of 1..MaxList tracks, uploaded by users 1
\* and 2 in turn, whose views have all been pruned
PageTrack(r) ==
  [id |-> <<"u", r>>, fileId |-> "f", fileUniqueId |-> "u",
   userId |-> IF r % 2 = 1 THEN 1 ELSE 2,
   voters |-> <<>>, createdAt |-> r, type |-> "original", messages |-> <<>>]
PageKeys == {"all", "mine"}
\* the digits a page button carries: 0..MaxPage, with and without a leading
\* zero, and 10
PageDigits == { <<d>> : d \in 0..MaxPage } \cup { <<0, d>> : d \in 0..MaxPage }
                \cup { <<1, 0>> }
InitPage ==
  /\ \E n \in 1..MaxList : trackList = [i \in 1..n |-> i]
  /\ tracks = [r \in 1..MaxList |-> PageTrack(r)]
  /\ saved = Snapshot(trackList, tracks)
  /\ live = {}
  /\ shown = [m \in AllMsgs |-> NoBar]
  /\ now = 1
  /\ hs = [h \in Handlers |-> Idle]
  /\ paginationState = [u \in {ToString(u) : u \in Users} |-> NoPage]
  /\ lost = 0
  /\ snap = [h \in Handlers |-> NoStore]
  /\ started = 0
  /\ db = <<>>
  /\ tempPlays = [u \in {ToString(u) : u \in Users} |-> NoPlay]
  /\ timers = [p \in Plays |-> NoTimer]
  /\ disk = "ok"
  /\ proc = Launched
NextPage ==
  \/ \E h \in Handlers, u \in Users, key \in PageKeys, digits \in PageDigits :
        PageStart(h, u, key, digits)
  \/ \E h \in Handlers : PageAnswered(h)
SpecPage == InitPage /\ [][NextPage]_vars

\* -- the like-count views over a store of three tracks, created a week
\* ago, a moment ago and now, with every combination of like counts
TopTrack(r, v) ==
  [id |-> <<"u", r>>, fileId |-> "f", fileUniqueId |-> "u", userId |-> 1,
   voters |-> v,
   createdAt |-> IF r = 1 THEN 1 - WeekMs ELSE IF r = 2 THEN 0 ELSE 1,
   type |-> "original", messages |-> <<>>]
TopVoters == {<<>>, <<1>>, <<2, 1>>}
TopKeys == {"global", "week"}
InitTop ==
  /\ trackList = <<1, 2, 3>>
  /\ \E v \in [1..3 -> TopVoters] :
        tracks = [r \in Refs |-> IF r <= 3 THEN TopTrack(r, v[r]) ELSE NoTrack]
  /\ saved = Snapshot(trackList, tracks)
  /\ live = {}
  /\ shown = [m \in AllMsgs |-> NoBar]
  /\ now = 1
  /\ hs = [h \in Handlers |-> Idle]
  /\ paginationState = [u \in {ToString(u) : u \in Users} |-> NoPage]
  /\ lost = 0
  /\ snap = [h \in Handlers |-> NoStore]
  /\ started = 0
  /\ db = <<>>
  /\ tempPlays = [u \in {ToString(u) : u \in Users} |-> NoPlay]
  /\ timers = [p \in Plays |-> NoTimer]
  /\ disk = "ok"
  /\ proc = Launched
NextTop ==
  \/ \E h \in Handlers, u \in Users, key \in TopKeys : PageStart(h, u, key, <<1>>)
  \/ \E h \in Handlers : PageAnswered(h)
  \/ Tick
SpecTop == InitTop /\ [][NextTop]_vars

\* -- uploads, revision whose duplicate test reads the title: the store
\* holds nothing or track 1, titled a_b; the files are track 1's content
\* re-sent, and new content under names that do or do not collide with a_b
Files2 == { [fileId |-> "fA2", fuid |-> "uA", name |-> <<"x">>],
            [fileId |-> "fC", fuid |-> "uC", name |-> <<"a", "_", "b">>],
            [fileId |-> "fC", fuid |-> "uC", name |-> <<"A", "_", "B">>],
            [fileId |-> "fC", fuid |-> "uC", name |-> <<"a", "/", ":", "b">>],
            [fileId |-> "fC", fuid |-> "uC", name |-> <<"a", "b">>],
            [fileId |-> "fC", fuid |-> "uC", name |-> <<>>] }
TitleOf(r) == IF r = 1 THEN <<"a", "_", "b">> ELSE <<>>
InitUp2 ==
  /\ trackList \in {<<>>, <<1>>}
  /\ tracks = [r \in Refs |-> [title |-> TitleOf(r)] @@ InitHeap(<<>>)[r]]
  /\ saved = Snapshot(trackList, tracks)
  /\ live = UNION { Range(tracks[trackList[i]].messages) : i \in 1..Len(trackList) }
  /\ shown = [m \in AllMsgs |->
               IF trackList # <<>> /\ m = <<0, "l1">>
               THEN likeBar(tracks[1], tracks[1].userId) ELSE NoBar]
  /\ now = 1
  /\ hs = [h \in Handlers |-> Idle]
  /\ paginationState = [u \in {ToString(u) : u \in Users} |-> NoPage]
  /\ lost = 0
  /\ snap = [h \in Handlers |-> NoStore]
  /\ started = 0
  /\ db = <<>>
  /\ tempPlays = [u \in {ToString(u) : u \in Users} |-> NoPlay]
  /\ timers = [p \in Plays |-> NoTimer]
  /\ disk = "ok"
  /\ proc = Launched
NextUp2 ==
  \/ \E h \in Handlers, u \in Users, f \in Files2 : Upload2Start(h, u, f)
  \/ \E h \in Handlers : Upload2Warned(h)
  \/ \E h \in Handlers, o \in DelOutcomes : Upload2Deleted(h, o)
  \/ \E h \in Handlers : UploadAdded(h)
  \/ \E h \in Handlers : UploadTyped(h)
  \/ \E h \in Handlers : UploadLiked(h)
  \/ Tick
SpecUp2 == InitUp2 /\ [][NextUp2]_vars


\* -- interleaved like toggles, database-backed revision: one stored track,
\* and user 1 may have played it from a list (copy and temporary bar)
PlayOf1 == [trackId |-> <<"uA", 0>>, msgIds |-> << <<0, "pc">>, <<0, "pb">> >>]
DbRegistered(m) ==
  \/ \E i \in 1..Len(db) : m \in Range(db[i].messages)
  \/ \E u \in DOMAIN tempPlays : m \in Range(tempPlays[u].msgIds)
PressedIds == { db[i].id : i \in 1..Len(db) } \cup { <<"uB", 0>> }
InitDb ==
  /\ trackList = <<>>
  /\ tracks = [r \in Refs |-> NoTrack]
  /\ saved = <<>>
  /\ \E v \in {<<>>, <<2>>, <<2, 1>>} : db = << Doc(InitTrack1(v), 0) >>
  /\ tempPlays \in { [u \in {ToString(u) : u \in Users} |-> NoPlay],
                     [u \in {ToString(u) : u \in Users} |->
                        IF u = "1" THEN PlayOf1 ELSE NoPlay] }
  /\ live = Range(db[1].messages) \cup Range(tempPlays["1"].msgIds)
  /\ shown = [m \in AllMsgs |->
               IF m = <<0, "l1">> THEN likeBar(db[1], db[1].userId)
               ELSE IF m = <<0, "pb">> /\ m \in live THEN likeBar(db[1], 1)
               ELSE NoBar]
  /\ now = 1
  /\ hs = [h \in Handlers |-> Idle]
  /\ paginationState = [u \in {ToString(u) : u \in Users} |-> NoPage]
  /\ lost = 0
  /\ snap = [h \in Handlers |-> NoStore]
  /\ started = 0
  /\ timers = [p \in Plays |-> NoTimer]
  /\ disk = "ok"
  /\ proc = Launched
NextDb ==
  \/ \E h \in Handlers, u \in Users, id \in PressedIds : DbLikeStart(h, u, id)
  \/ \E h \in Handlers : DbLikeFound(h)
  \/ \E h \in Handlers : DbLikeEffect(h)
  \/ \E h \in Handlers : DbLikeToast(h)
  \/ \E h \in Handlers : DbLikeSaved(h)
  \/ \E h \in Handlers, o \in Outcomes : DbLikeEdited(h, o)
  \/ \E h \in Handlers, o \in Outcomes : DbLikeTemp(h, o)
  \/ \E m \in AllMsgs : DbRegistered(m) /\ LoseMessage(m)
SpecDb == InitDb /\ [][NextDb]_vars

\* -- set-type actions interleaved with like toggles; track 1 has the four
\* messages its upload registered, or the three left once a like fan-out
\* found the confirmation gone
InitTrack1Fresh ==
  [InitTrack1(<<>>) EXCEPT
     !.messages = << <<0, "a1">>, <<0, "c1">>, <<0, "t1">>, <<0, "l1">> >>]
Types == {"original", "cover"}
InitType ==
  /\ trackList = <<1>>
  /\ tracks \in { InitHeap(<<>>), [InitHeap(<<>>) EXCEPT ![1] = InitTrack1Fresh] }
  /\ saved = Snapshot(trackList, tracks)
  /\ live = Range(tracks[1].messages)
  /\ shown = [m \in AllMsgs |-> IF m = <<0, "l1">> THEN likeBar(tracks[1], 1) ELSE NoBar]
  /\ now = 1
  /\ hs = [h \in Handlers |-> Idle]
  /\ paginationState = [u \in {ToString(u) : u \in Users} |-> NoPage]
  /\ lost = 0
  /\ snap = [h \in Handlers |-> NoStore]
  /\ started = 0
  /\ db = <<>>
  /\ tempPlays = [u \in {ToString(u) : u \in Users} |-> NoPlay]
  /\ timers = [p \in Plays |-> NoTimer]
  /\ disk = "ok"
  /\ proc = Launched
NextType ==
  \/ \E h \in Handlers, u \in Users, id \in KnownIds, t \in Types : TypeStart(h, u, id, t, FALSE)
  \/ \E h \in Handlers, o \in DelOutcomes : TypeSelectorDeleted(h, o)
  \/ \E h \in Handlers, o \in DelOutcomes : TypeRetired(h, o)
  \/ \E h \in Handlers : TypeAnswered(h)
  \/ \E h \in Handlers, u \in Users, id \in KnownIds : LikeStart(h, u, id, FALSE)
  \/ \E h \in Handlers : LikeEffect(h)
  \/ \E h \in Handlers : LikeSave(h)
  \/ \E h \in Handlers, o \in Outcomes : LikeEdited(h, o)
  \/ \E m \in AllMsgs : Registered(m) /\ LoseMessage(m)
SpecType == InitType /\ [][NextType]_vars

\* -- uploads, likes, set-type and deletes one at a time, on a medium whose
\* writes may start to fail
InitFail ==
  /\ trackList = <<1>>
  /\ tracks = [InitHeap(<<>>) EXCEPT ![1] = InitTrack1Fresh]
  /\ saved = Snapshot(trackList, tracks)
  /\ live = Range(tracks[1].messages)
  /\ shown = [m \in AllMsgs |-> IF m = <<0, "l1">> THEN likeBar(tracks[1], 1) ELSE NoBar]
  /\ now = 1
  /\ hs = [h \in Handlers |-> Idle]
  /\ paginationState \in [{ToString(u) : u \in Users} -> {NoPage, AllPage}]
  /\ lost = 0
  /\ snap = [h \in Handlers |-> NoStore]
  /\ started = 0
  /\ db = <<>>
  /\ tempPlays = [u \in {ToString(u) : u \in Users} |-> NoPlay]
  /\ timers = [p \in Plays |-> NoTimer]
  /\ disk = "ok"
  /\ proc = Launched
NextFail ==
  \/ \E h \in Handlers, u \in Users, f \in Files : UploadStart(h, u, f, TRUE)
  \/ \E h \in Handlers : UploadWarned(h)
  \/ \E h \in Handlers : UploadAdded(h)
  \/ \E h \in Handlers : UploadTyped(h)
  \/ \E h \in Handlers : UploadLiked(h)
  \/ \E h \in Handlers, u \in Users, id \in KnownIds : LikeStart(h, u, id, TRUE)
  \/ \E h \in Handlers : LikeEffect(h)
  \/ \E h \in Handlers : LikeSave(h)
  \/ \E h \in Handlers, o \in Outcomes : LikeEdited(h, o)
  \/ \E h \in Handlers, u \in Users, id \in KnownIds, t \in Types : TypeStart(h, u, id, t, TRUE)
  \/ \E h \in Handlers, o \in DelOutcomes : TypeSelectorDeleted(h, o)
  \/ \E h \in Handlers, o \in DelOutcomes : TypeRetired(h, o)
  \/ \E h \in Handlers : TypeAnswered(h)
  \/ \E h \in Handlers, u \in Users, id \in KnownIds : DelStart(h, u, id, TRUE)
  \/ \E h \in Handlers, o \in DelOutcomes : DelTornDown(h, o)
  \/ \E h \in Handlers : DelRefresh(h)
  \/ \E h \in Handlers : DelAnswer(h)
  \/ DiskFails
SpecFail == InitFail /\ [][NextFail]_vars


\* -- like toggles, one at a time, in a process that may die and be restarted
NextCrash ==
  \/ \E h \in Handlers, u \in Users, id \in KnownIds : LikeStart(h, u, id, TRUE)
  \/ \E h \in Handlers : LikeEffect(h)
  \/ \E h \in Handlers : LikeSave(h)
  \/ \E h \in Handlers, o \in Outcomes : LikeEdited(h, o)
  \/ CrashRestart
  \/ \E h \in Handlers : CrashInSave(h)
SpecCrash == InitLike /\ [][NextCrash]_vars


\* -- like, set-type and play actions interleaved with deletes: a button may
\* carry the id of a track that is, or has just been, removed
InitGone ==
  /\ trackList \in {<<1>>, <<1, 2>>}
  /\ tracks = [InitHeap(<<>>) EXCEPT ![1] = InitTrack1Fresh]
  /\ saved = Snapshot(trackList, tracks)
  /\ live = UNION { Range(tracks[trackList[i]].messages) : i \in 1..Len(trackList) }
  /\ shown = [m \in AllMsgs |->
               IF m = <<0, "l1">> THEN likeBar(tracks[1], 1)
               ELSE IF m = <<0, "l2">> /\ m \in live THEN likeBar(tracks[2], 2) ELSE NoBar]
  /\ now = 1
  /\ hs = [h \in Handlers |-> Idle]
  /\ paginationState = [u \in {ToString(u) : u \in Users} |-> AllPage]
  /\ lost = 0
  /\ snap = [h \in Handlers |-> NoStore]
  /\ started = 0
  /\ db = <<>>
  /\ tempPlays = [u \in {ToString(u) : u \in Users} |-> NoPlay]
  /\ timers = [p \in Plays |-> NoTimer]
  /\ disk = "ok"
  /\ proc = Launched
NextGone ==
  \/ \E h \in Handlers, u \in Users, id \in KnownIds : LikeStart(h, u, id, FALSE)
  \/ \E h \in Handlers : LikeEffect(h)
  \/ \E h \in Handlers : LikeSave(h)
  \/ \E h \in Handlers, o \in Outcomes : LikeEdited(h, o)
  \/ \E h \in Handlers, u \in Users, id \in KnownIds, t \in Types : TypeStart(h, u, id, t, FALSE)
  \/ \E h \in Handlers, o \in DelOutcomes : TypeSelectorDeleted(h, o)
  \/ \E h \in Handlers, o \in DelOutcomes : TypeRetired(h, o)
  \/ \E h \in Handlers : TypeAnswered(h)
  \/ \E h \in Handlers, u \in Users, id \in KnownIds : PlayStart(h, u, id, FALSE)
  \/ \E h \in Handlers, o \in DelOutcomes : PlayPrevDeleted(h, o)
  \/ \E h \in Handlers, o \in DelOutcomes : PlayCopied(h, o)
  \/ \E h \in Handlers, o \in DelOutcomes : PlayBarSent(h, o)
  \/ \E h \in Handlers : PlayAnswered(h)
  \/ \E p \in Plays : TimerFires(p, FALSE)
  \/ \E p \in Plays, o \in DelOutcomes : TimerDeleted(p, o)
  \/ \E h \in Handlers, u \in Users, id \in KnownIds : DelStart(h, u, id, FALSE)
  \/ \E h \in Handlers, o \in DelOutcomes : DelTornDown(h, o)
  \/ \E h \in Handlers : DelRefresh(h)
  \/ \E h \in Handlers : DelAnswer(h)
SpecGone == InitGone /\ [][NextGone]_vars


\* -- the global error handler and its exit timers; the event loop runs a
\* timer that is due
InitCatch == InitWith({<<1>>}, {<<>>}, {NoPage})
NextCatch ==
  \/ \E err \in Errs : botCatch(err)
  \/ ExitTimerFires
SpecCatch == InitCatch /\ [][NextCatch]_vars /\ WF_vars(ExitTimerFires)


\* -- like toggles, interleaved, whose notices may be rejected
Running == proc.st = "running"
NextSend ==
  \/ \E h \in Handlers, u \in Users, id \in KnownIds : Running /\ LikeStart(h, u, id, FALSE)
  \/ \E h \in Handlers : Running /\ LikeEffect(h)
  \/ \E h \in Handlers : Running /\ LikeSave(h)
  \/ \E h \in Handlers, o \in Outcomes : Running /\ LikeEdited(h, o)
  \/ \E h \in Handlers, err \in Errs : Running /\ LikeNoticeFailed(h, err)
  \/ ExitTimerFires
SpecSend == InitLike /\ [][NextSend]_vars


\* -- uploads, interleaved, whose replies may be rejected
NextUpFail ==
  \/ \E h \in Handlers, u \in Users, f \in Files : UploadStart(h, u, f, FALSE)
  \/ \E h \in Handlers : UploadWarned(h)
  \/ \E h \in Handlers : UploadAdded(h)
  \/ \E h \in Handlers : UploadTyped(h)
  \/ \E h \in Handlers : UploadLiked(h)
  \/ \E h \in Handlers : UploadSendFailed(h)
  \/ Tick
SpecUpFail == InitUp /\ [][NextUpFail]_vars


\* -- every action of the file-backed bot that reads or writes a track,
\* interleaved: upload, set-type, like, play with its expiry, page, delete
InitKind == InitWith({<<1>>}, {<<>>}, {NoPage})
NextKind ==
  \/ \E h \in Handlers, u \in Users, f \in Files : UploadStart(h, u, f, FALSE)
  \/ \E h \in Handlers : UploadWarned(h)
  \/ \E h \in Handlers : UploadAdded(h)
  \/ \E h \in Handlers : UploadTyped(h)
  \/ \E h \in Handlers : UploadLiked(h)
  \/ \E h \in Handlers, u \in Users, id \in KnownIds, t \in Types : TypeStart(h, u, id, t, FALSE)
  \/ \E h \in Handlers, o \in DelOutcomes : TypeSelectorDeleted(h, o)
  \/ \E h \in Handlers, o \in DelOutcomes : TypeRetired(h, o)
  \/ \E h \in Handlers : TypeAnswered(h)
  \/ \E h \in Handlers, u \in Users, id \in KnownIds : LikeStart(h, u, id, FALSE)
  \/ \E h \in Handlers : LikeEffect(h)
  \/ \E h \in Handlers : LikeSave(h)
  \/ \E h \in Handlers, o \in Outcomes : LikeEdited(h, o)
  \/ \E h \in Handlers, u \in Users, id \in KnownIds : PlayStart(h, u, id, FALSE)
  \/ \E h \in Handlers, o \in DelOutcomes : PlayPrevDeleted(h, o)
  \/ \E h \in Handlers, o \in DelOutcomes : PlayCopied(h, o)
  \/ \E h \in Handlers, o \in DelOutcomes : PlayBarSent(h, o)
  \/ \E h \in Handlers : PlayAnswered(h)
  \/ \E p \in Plays : TimerFires(p, FALSE)
  \/ \E p \in Plays, o \in DelOutcomes : TimerDeleted(p, o)
  \/ \E h \in Handlers, u \in Users, key \in PageKeys, digits \in {<<1>>} :
        PageStart(h, u, key, digits)
  \/ \E h \in Handlers : PageAnswered(h)
  \/ \E h \in Handlers, u \in Users, id \in KnownIds : DelStart(h, u, id, FALSE)
  \/ \E h \in Handlers, o \in DelOutcomes : DelTornDown(h, o)
  \/ \E h \in Handlers : DelRefresh(h)
  \/ \E h \in Handlers : DelAnswer(h)
SpecKind == InitKind /\ [][NextKind]_vars


\* -- plays and their expiry callbacks, interleaved; every pending await
\* comes back and every armed timer fires
NextExpiry ==
  \/ \E h \in Handlers, u \in Users, id \in KnownIds : PlayStart(h, u, id, FALSE)
  \/ \E h \in Handlers, o \in DelOutcomes : PlayPrevDeleted(h, o)
  \/ \E h \in Handlers, o \in DelOutcomes : PlayCopied(h, o)
  \/ \E h \in Handlers, o \in DelOutcomes : PlayBarSent(h, o)
  \/ \E h \in Handlers : PlayAnswered(h)
  \/ \E p \in Plays : TimerFires(p, FALSE)
  \/ \E p \in Plays, o \in DelOutcomes : TimerDeleted(p, o)
FairExpiry ==
  /\ \A h \in Handlers : WF_vars(\E o \in DelOutcomes : PlayPrevDeleted(h, o))
  /\ \A h \in Handlers : WF_vars(\E o \in DelOutcomes : PlayCopied(h, o))
  /\ \A h \in Handlers : WF_vars(\E o \in DelOutcomes : PlayBarSent(h, o))
  /\ \A h \in Handlers : WF_vars(PlayAnswered(h))
  /\ \A p \in Plays : WF_vars(TimerFires(p, FALSE))
  /\ \A p \in Plays : WF_vars(\E o \in DelOutcomes : TimerDeleted(p, o))
SpecExpiry == InitPlay /\ [][NextExpiry]_vars /\ FairExpiry

\* ================================================================ claims
StoredRefs == Range(trackList)
SameFields(a, b) == a.type = b.type /\ a.voters = b.voters /\ a.messages = b.messages

\* the upload handler h was given a file whose content-unique handle was in
\* the store when it started
DuplicateUpload(h) ==
  /\ hs[h].kind = "upload"
  /\ \E i \in 1..Len(snap[h].list) :
        snap[h].heap[snap[h].list[i]].fileUniqueId = hs[h].file.fuid

\* C1: with updates handled one at a time, when the handler of an upload
\* whose content-unique handle is already in the store finishes, the store
\* holds the same tracks as when it started, each with the same kind, voters
\* and views, and nothing was written to the snapshot.
C1_DuplicateUploadChangesNothing ==
  \A h \in Handlers :
    (DuplicateUpload(h) /\ hs[h].pc = "done" /\ hs[h].n = started) =>
       /\ trackList = snap[h].list
       /\ Len(trackList) = Len(snap[h].list)
       /\ \A r \in StoredRefs : SameFields(tracks[r], snap[h].heap[r])
       /\ saved = snap[h].saved
       /\ hs[h].ack = "duplicate"

\* a finished duplicate upload whose transfer handle differs from every
\* stored one: only the content-unique handle matches
C1_Witness ==
  \E h \in Handlers :
    /\ DuplicateUpload(h) /\ hs[h].pc = "done"
    /\ \A r \in StoredRefs : tracks[r].fileId # hs[h].file.fileId

\* C2: no two tracks in the store have the same content-unique handle, also
\* when upload handlers interleave at their awaits.
C2_OneTrackPerHandle ==
  \A i, j \in 1..Len(trackList) :
    i # j => tracks[trackList[i]].fileUniqueId # tracks[trackList[j]].fileUniqueId

\* C7: no two tracks in the store have the same id, also when uploads
\* interleave within the same millisecond.
C7_UniqueIds ==
  \A i, j \in 1..Len(trackList) :
    i # j => tracks[trackList[i]].id # tracks[trackList[j]].id

\* like handlers g and h both found the same track, for different users,
\* and no other handler toggles either user's vote on it
TwoLikes(g, h) ==
  /\ g # h
  /\ hs[g].kind = "like" /\ hs[h].kind = "like"
  /\ hs[g].ref # 0 /\ hs[g].ref = hs[h].ref
  /\ hs[g].user # hs[h].user
  /\ \A x \in Handlers \ {g, h} :
       ~(hs[x].kind = "like" /\ hs[x].ref = hs[g].ref
         /\ hs[x].user \in {hs[g].user, hs[h].user})

Toggled(h, voters) == (hs[h].user \in Range(voters)) = ~hs[h].was

\* C3: when the like handlers of two users for the same track have both
\* finished, however they interleaved, each user's membership in the track's
\* voters is the negation of what it was, in memory and in the snapshot.
C3_NoVoteDropped ==
  \A g, h \in Handlers :
    (TwoLikes(g, h) /\ hs[g].pc = "done" /\ hs[h].pc = "done") =>
       /\ Toggled(g, tracks[hs[g].ref].voters)
       /\ Toggled(h, tracks[hs[g].ref].voters)
       /\ \A i \in 1..Len(trackList) :
            trackList[i] = hs[g].ref =>
               /\ i <= Len(saved)
               /\ saved[i].id = hs[g].id
               /\ Toggled(g, saved[i].voters)
               /\ Toggled(h, saved[i].voters)

\* both finished, the second having started while the first was suspended,
\* and the track is still in the store
C3_Witness ==
  \E g, h \in Handlers :
    /\ TwoLikes(g, h) /\ hs[g].pc = "done" /\ hs[h].pc = "done"
    /\ hs[h].over
    /\ hs[g].ref \in StoredRefs

\* two like handlers that were in flight together, of different users, for
\* the same stored document, neither of which found it missing
TwoDbLikes(g, h) ==
  /\ g # h
  /\ hs[g].kind = "dblike" /\ hs[h].kind = "dblike"
  /\ hs[g].pc \in {"done", "failed"} /\ hs[h].pc \in {"done", "failed"}
  /\ hs[g].ack # "notfound" /\ hs[h].ack # "notfound"
  /\ hs[g].id = hs[h].id
  /\ hs[g].user # hs[h].user
DbToggled(h) ==
  (hs[h].user \in Range(db[dbFindOne(hs[h].id)].voters)) = ~hs[h].was

\* C4: in the database-backed revision, two interleaved like handlers of
\* different users for the same track lose no vote: once both have ended,
\* the stored voters reflect the toggle of each of the two users.
C4_NoVoteLostDb ==
  \A g, h \in Handlers :
     TwoDbLikes(g, h) => DbToggled(g) /\ DbToggled(h)

\* C5: with updates handled one at a time, two like toggles of the same user
\* on the same track, one right after the other, leave the track with the
\* voters (as a set) and the like count it had before the first.
C5_ToggleTwiceRestores ==
  \A g, h \in Handlers :
    ( /\ hs[g].kind = "like" /\ hs[h].kind = "like"
      /\ hs[g].pc = "done" /\ hs[h].pc = "done"
      /\ hs[g].ref # 0 /\ hs[g].ref = hs[h].ref
      /\ hs[g].user = hs[h].user
      /\ hs[h].n = hs[g].n + 1 /\ hs[h].n = started ) =>
       LET before == snap[g].heap[hs[g].ref].voters
           after == tracks[hs[g].ref].voters
       IN /\ Range(after) = Range(before)
          /\ Len(after) = Len(before)
          /\ \A i \in 1..Len(saved) :
               saved[i].id = hs[g].id =>
                  Range(saved[i].voters) = Range(before) /\ Len(saved[i].voters) = Len(before)

\* two such toggles finished, on a track that had another user's vote
C5_Witness ==
  \E g, h \in Handlers :
    /\ hs[g].kind = "like" /\ hs[h].kind = "like"
    /\ hs[g].pc = "done" /\ hs[h].pc = "done"
    /\ hs[g].ref # 0 /\ hs[g].ref = hs[h].ref
    /\ hs[g].user = hs[h].user
    /\ hs[h].n = hs[g].n + 1
    /\ Len(snap[g].heap[hs[g].ref].voters) >= 1

NoDup(s) == \A i, j \in 1..Len(s) : s[i] = s[j] => i = j

\* C6: the voters of a track never hold the same user id twice, in the
\* in-memory store, in the snapshot and in the collection, whatever likes
\* are pressed (the same user pressing like twice in a row included).
C6_NoDuplicateVoters ==
  /\ \A r \in Refs : NoDup(tracks[r].voters)
  /\ \A i \in 1..Len(saved) : NoDup(saved[i].voters)
  /\ \A i \in 1..Len(db) : NoDup(db[i].voters)

\* the like handler h ends its fan-out in this step
LikeFanOutEnds(h) == hs[h].kind = "like" /\ hs[h].pc = "l_edit" /\ hs'[h].pc = "done"

Failed(res, kinds) == { i \in 1..Len(res) : res[i] \in kinds }
Edited(iter, res) == SelectSeq([i \in 1..Len(iter) |-> <<iter[i], res[i]>>],
                               LAMBDA p : p[2] = "ok")
EditedViews(iter, res) == [i \in 1..Len(Edited(iter, res)) |-> Edited(iter, res)[i][1]]

\* what the claim promises of a fan-out over three views of which exactly
\* one failed, with an outcome in `kinds`: all three were attempted, the two
\* others show the track's like bar, they are the track's views afterwards,
\* in order, and the action is answered without an error text
OneOfThreePruned(h, kinds) ==
  ( /\ LikeFanOutEnds(h)
    /\ Len(hs'[h].iter) = 3 /\ Len(hs'[h].res) = 3
    /\ Cardinality(Failed(hs'[h].res, {"gone", "err"})) = 1
    /\ Failed(hs'[h].res, {"gone", "err"}) = Failed(hs'[h].res, kinds) ) =>
     /\ \A i \in 1..3 : hs'[h].res[i] = "ok" => shown'[hs'[h].iter[i]].id = hs'[h].id
     /\ tracks'[hs'[h].ref].messages = EditedViews(hs'[h].iter, hs'[h].res)
     /\ Len(tracks'[hs'[h].ref].messages) = 2
     /\ hs'[h].ack = "ok"

OneOfThreeKept(h) ==
  ( /\ LikeFanOutEnds(h)
    /\ Len(hs'[h].iter) = 3 /\ Len(hs'[h].res) = 3
    /\ Cardinality(Failed(hs'[h].res, {"gone", "err"})) = 1
    /\ Cardinality(Failed(hs'[h].res, {"err"})) = 1 ) =>
     /\ tracks'[hs'[h].ref].messages = hs'[h].iter
     /\ hs'[h].ack = "ok"

DelSteps(h) == hs'[h] # hs[h] /\ hs'[h].kind = "del"
InStore(id) == firstWithId(trackList, tracks, id) # 0

\* C9: a delete by a user outside the allow-list is rejected and changes no
\* track, no snapshot and no message; a delete by an admin that reports the
\* track deleted has removed it: the id is not in the store any more, so
\* every later lookup of it reports not found.
C9_DeleteNeedsAdminAndRemoves ==
  [][\A h \in Handlers : DelSteps(h) =>
        /\ ~isAdmin(hs'[h].user) =>
              /\ hs'[h].pc = "done" /\ hs'[h].ack = "norights"
              /\ UNCHANGED <<trackList, tracks, saved, live, shown>>
        /\ (isAdmin(hs'[h].user) /\ hs'[h].ack = "deleted") =>
              firstWithId(trackList', tracks', hs'[h].id) = 0]_vars

\* C10: in an admin delete a delete was attempted on every view before the
\* track is removed, the track is removed whatever the attempts' outcome,
\* and the page the refresh renders does not list the deleted track.
C10_TeardownThenRemoveThenRefresh ==
  \A h \in Handlers :
    (hs[h].kind = "del" /\ hs[h].ref # 0) =>
       /\ InStore(hs[h].id) => hs[h].pc = "d_loop"
       /\ hs[h].pc # "d_loop" => Len(hs[h].res) = Len(hs[h].iter)
       /\ hs[h].page # <<>> => hs[h].id \notin Range(hs[h].page[1].slice)

\* the like-bar message of a track: the last message its upload sent
likeBarOf(ref) ==
  IF ref = 1 THEN <<0, "l1">> ELSE IF ref = 2 THEN <<0, "l2">> ELSE <<ref - 2, "like">>

\* the set-type handler h sets and saves the kind in this step
TypeSets(h) == hs[h].pc = "idle" /\ hs'[h].kind = "type" /\ hs'[h].ref # 0
\* the set-type handler h is through with the track's views in this step
TypeViewsSettled(h) ==
  hs[h].kind = "type" /\ hs[h].pc \in {"t_del", "t_loop"} /\ hs'[h].pc = "t_ok"
\* no other handler holds the track of h
Alone(h) == \A g \in Handlers \ {h} : hs[g].ref # hs[h].ref

\* C11: a set-type action on a stored track sets the track's kind to the
\* chosen value and writes it to the snapshot; once it is through with the
\* views, the selector is no longer among them, the like bar still is if it
\* was when the action arrived, and (no other handler working on the track)
\* the views are those the track had when the action arrived less the
\* selector, whatever their number.
C11_SetTypeRetiresSelector ==
  [][\A h \in Handlers :
       /\ TypeSets(h) =>
            /\ tracks'[hs'[h].ref].type = hs'[h].type
            /\ \A i \in 1..Len(trackList') :
                 trackList'[i] = hs'[h].ref => saved'[i].type = hs'[h].type
       /\ TypeViewsSettled(h) =>
            LET ms == tracks'[hs[h].ref].messages
                was == hs[h].upd
            IN /\ selectorOf(hs[h].ref) \notin Range(ms)
               /\ likeBarOf(hs[h].ref) \in Range(was) => likeBarOf(hs[h].ref) \in Range(ms)
               /\ Alone(h) => ms = SelectSeq(was, LAMBDA m : m # selectorOf(hs[h].ref))]_vars

\* the upload handler h finishes in this step, having added its track
UploadAdds(h) ==
  hs[h].kind = "upload" /\ hs[h].pc = "u_like" /\ hs'[h].pc = "done" /\ hs'[h].ack = "added"

\* the new track of h is the one track the step adds to the store and to the
\* snapshot, original, without voters, owned by the uploader, with `views`
NewTrackHas(h, views) ==
  LET t == tracks'[hs[h].ref]
  IN /\ trackList' = Append(trackList, hs[h].ref)
     /\ Len(saved') = Len(trackList') /\ saved'[Len(saved')] = t
     /\ t.type = "original" /\ t.voters = <<>> /\ t.userId = hs[h].user
     /\ t.fileUniqueId = hs[h].file.fuid
     /\ t.messages = views

RendersBar(m, ref) == m \in live /\ shown[m].id = tracks[ref].id

\* C13: when a like-toggle handler finishes (no other handler in flight, no
\* edit failed for a reason other than a missing message), every live message
\* that renders the track's like bar shows the new like count: the track's
\* views and the like bar of every user's playback session for the track.
C13_EveryBarShowsNewCount ==
  [][ \A h \in Handlers :
        ( /\ LikeFanOutEnds(h)
          /\ \A g \in Handlers \ {h} : Finished(g)
          /\ \A i \in 1..Len(hs'[h].res) : hs'[h].res[i] # "err" )
        => \A m \in AllMsgs :
             RendersBar(m, hs[h].ref)' =>
               shown'[m].count = Len(tracks'[hs[h].ref].voters) ]_vars

\* the messages handler h sent that are in the chat
SentBy(h) == { m \in live : m[1] = h }
PlayTearsDown(h) == hs[h].pc = "idle" /\ hs'[h].kind = "play" /\ hs'[h].ref # 0
PlayTornDown(h) == hs[h].pc = "p_prev" /\ hs'[h].pc = "p_copy"
PlayEnds(h) == hs[h].pc = "p_ans" /\ hs'[h].pc = "done"

\* C14: with updates handled one at a time, a play by a user whose session
\* has rendered messages walks over every message of that session, has
\* attempted a delete on each and cleared the session before anything of the
\* new one is sent; when the handler finishes the user's one session is for
\* the requested track and lists exactly the messages this handler sent.
C14_PlayReplacesSession ==
  [][ \A h \in Handlers :
        LET uid == ToString(hs'[h].user) IN
        /\ (PlayTearsDown(h) /\ tempPlays[uid].msgIds # <<>>) =>
              hs'[h].pc = "p_prev" /\ hs'[h].iter = tempPlays[uid].msgIds
        /\ PlayTornDown(h) =>
              /\ Len(hs'[h].res) = Len(hs[h].iter)
              /\ tempPlays'[uid] = NoPlay
              /\ SentBy(h)' = {}
        /\ PlayEnds(h) =>
              /\ tempPlays'[uid].trackId = hs[h].id
              /\ Range(tempPlays'[uid].msgIds) = SentBy(h)'
              /\ Len(tempPlays'[uid].msgIds) = Cardinality(SentBy(h)') ]_vars
\* a play that found a two-message session, attempted both deletes, sent a
\* copy and a like bar and finished with them as the session
C14_Witness ==
  \E h \in Handlers :
    /\ hs[h].kind = "play" /\ hs[h].pc = "done" /\ hs[h].ack = "ok"
    /\ Len(hs[h].iter) = 2 /\ Len(hs[h].res) = 2
    /\ tempPlays[ToString(hs[h].user)] =
         [trackId |-> hs[h].id, msgIds |-> << <<h, "copy">>, <<h, "bar">> >>]

\* the messages a delete was attempted on: by the teardown loop of a play
\* handler or by an expiry callback
Attempted ==
  UNION ( { { hs[h].iter[i] : i \in 1..Len(hs[h].res) } :
              h \in { g \in Handlers : hs[g].kind = "play" } }
          \cup { { timers[p].iter[i] :
                     i \in 1..(IF timers[p].st = "run" THEN timers[p].k - 1
                               ELSE Len(timers[p].iter)) } : p \in Plays } )
DoubleTap(g, h) ==
  /\ g # h
  /\ hs[g].kind = "play" /\ hs[h].kind = "play"
  /\ hs[g].user = hs[h].user
  /\ hs[g].over \/ hs[h].over
  /\ hs[g].pc = "done" /\ hs[h].pc = "done"

\* C15: when two play handlers of one user interleaved and both have
\* finished, every playback message either of them sent that is still in the
\* chat is listed in the user's recorded session or had a delete attempted.
C15_NoUntrackedPlayback ==
  \A g, h \in Handlers :
    DoubleTap(g, h) =>
      \A m \in SentBy(g) \cup SentBy(h) :
        m \in Range(tempPlays[ToString(hs[g].user)].msgIds) \/ m \in Attempted

\* the expiry callback of play p takes a step
TimerSteps(p) == timers[p].st \in {"armed", "run"} /\ timers'[p] # timers[p]
\* the step leaves the session `cur` of user uid as it is, messages included
SessionUntouched(uid, cur) ==
  /\ tempPlays'[uid] = cur
  /\ Range(cur.msgIds) \cap live \subseteq live'

\* C16: no step of the expiry callback scheduled by a play of track A deletes
\* a message of, or clears, a session of the same user for another track B
\* (such a session was recorded after the callback was scheduled).
C16_StaleTimerSparesOtherTrack ==
  [][ \A p \in Plays :
        LET cur == tempPlays[timers[p].uid] IN
        (TimerSteps(p) /\ cur # NoPlay /\ cur.trackId # timers[p].trackId)
          => SessionUntouched(timers[p].uid, cur) ]_vars

\* the session play handler h recorded, for which its callback was scheduled
ScheduledFor(h) == [trackId |-> timers[h].trackId, msgIds |-> hs[h].upd]

\* C17: the expiry callback of a play acts only on the session that play
\* recorded: when the user's session is another one, also one for the same
\* track, no step of the callback deletes its messages or clears it.
C17_TimerActsOnOwnSession ==
  [][ \A h \in Handlers :
        LET cur == tempPlays[timers[h].uid] IN
        (TimerSteps(h) /\ cur # NoPlay /\ cur # ScheduledFor(h))
          => SessionUntouched(timers[h].uid, cur) ]_vars

\* the play handler h of the revision that removes unresolvable tracks
\* finishes in this step, after its copy failed with 'message to copy not found'
OrphanPlayEnds(h) ==
  hs[h].kind = "play1" /\ hs[h].op = "gone" /\ hs[h].pc # "done" /\ hs'[h].pc = "done"
\* the track of h is in neither the list nor the snapshot
OrphanRemoved(h) ==
  /\ hs[h].ref \notin Range(trackList)
  /\ \A i \in 1..Len(saved) : saved[i].id # hs[h].id
\* the user of h, if they have a pagination view, was sent a page of it that
\* does not list the track
OrphanRefreshed(h) ==
  paginationState[ToString(hs[h].user)] # NoPage =>
     /\ hs[h].page # <<>>
     /\ \A i \in 1..Len(hs[h].page[1].slice) : hs[h].page[1].slice[i] # hs[h].id
\* h recorded no session, and the user has none unless another of their
\* plays recorded one
OrphanNoSession(h) ==
  /\ \A m \in Range(tempPlays[ToString(hs[h].user)].msgIds) : m[1] # h
  /\ (\A g \in Handlers \ {h} : hs[g].user # hs[h].user) =>
        tempPlays[ToString(hs[h].user)] = NoPlay

\* C18: when the copy of the origin fails because the origin no longer
\* exists, then at the end of the play handler the track is out of the store
\* and of the snapshot, the user was notified, their pagination view was
\* re-rendered without the track, and no playback session was recorded.
C18_OrphanRemovedAndRefreshed ==
  [][ \A h \in Handlers :
        OrphanPlayEnds(h) =>
          /\ OrphanRemoved(h)'
          /\ hs'[h].ack \in {"removed", "unavailable"}
          /\ OrphanRefreshed(h)'
          /\ OrphanNoSession(h)' ]_vars

\* what page handler h rendered, and the length of the list it rendered from
Rendered(h) == hs[h].page[1]
ListLen(h) == Len(hs[h].iter)

\* C19: a view of exactly 10 entries is rendered with page count 1 and
\* without Next; a view of 11 entries with page count 2, and its page 1
\* offers Next.
C19_TenAndElevenEntries ==
  \A h \in Handlers :
    hs[h].kind = "page" =>
      /\ ListLen(h) = 10 => (Rendered(h).totalPages = 1 /\ ~Rendered(h).next)
      /\ ListLen(h) = 11 =>
           /\ Rendered(h).totalPages = 2
           /\ Rendered(h).page = 1 => Rendered(h).next
\* one handler rendered a view of 10 entries, another page 1 of a view of 11
C19_Witness ==
  \E g, h \in Handlers :
    /\ hs[g].kind = "page" /\ ListLen(g) = 10 /\ Rendered(g).totalPages = 1
    /\ hs[h].kind = "page" /\ ListLen(h) = 11 /\ Rendered(h).page = 1 /\ Rendered(h).next

\* the page handler h renders in this step
PageRenders(h) == hs[h].pc = "idle" /\ hs'[h].kind = "page"
\* ceil(n / 10), as the least page count that holds n entries
PagesFor(n) == CHOOSE c \in 0..n : c * 10 >= n /\ (c - 1) * 10 < n
Clamped(p, n) == IF p < 1 THEN 1 ELSE IF p > PagesFor(n) THEN PagesFor(n) ELSE p
LastOn(q, n) == IF q * 10 < n THEN q * 10 ELSE n

\* C20: for a non-empty list of n tracks and a requested page p, showTracks
\* renders and stores page q = min(max(1, p), ceil(n/10)), shows entries
\* (q-1)*10+1 .. min(q*10, n) in list order, Previous iff q > 1, Next iff
\* q < ceil(n/10); of 25 tracks page 1 shows 10 with Next only, page 3 shows 5
\* with Previous only, and page 4 is rendered as page 3.
C20_PageClampedAndSliced ==
  [][ \A h \in Handlers :
        (PageRenders(h) /\ ListLen(h)' > 0) =>
          LET n == ListLen(h)'
              p == hs'[h].k
              r == Rendered(h)'
              q == Clamped(p, n)
          IN /\ r.page = q
             /\ paginationState'[ToString(hs'[h].user)].page = q
             /\ r.slice = [i \in 1..(LastOn(q, n) - (q - 1) * 10) |->
                             tracks[hs'[h].iter[(q - 1) * 10 + i]].id]
             /\ r.prev <=> q > 1
             /\ r.next <=> q < PagesFor(n)
             /\ (n = 25 /\ p = 1) => (Len(r.slice) = 10 /\ r.next /\ ~r.prev)
             /\ (n = 25 /\ p = 3) => (Len(r.slice) = 5 /\ r.prev /\ ~r.next)
             /\ (n = 25 /\ p = 4) => (r.page = 3 /\ Len(r.slice) = 5 /\ r.prev /\ ~r.next) ]_vars
\* page 4 of a list of 25 tracks was asked for and page 3 was rendered
C20_Witness ==
  \E h \in Handlers :
    /\ hs[h].kind = "page" /\ ListLen(h) = 25 /\ hs[h].k = 4
    /\ Rendered(h).page = 3 /\ Len(Rendered(h).slice) = 5
    /\ paginationState[ToString(hs[h].user)].page = 3

\* the like-count view handler h rendered
TopView(h) == hs[h].kind = "page" /\ Rendered(h).key \in {"global", "week"}
\* r comes before q in the sequence s
Before(s, r, q) == indexOf(s, r) < indexOf(s, q)

\* C21: a top-all-time or top-this-week view lists tracks by descending like
\* count and, among equal like counts, newest first; two queries of the same
\* view over the unchanged store list the tracks they share in the same order.
C21_TopOrderNewestFirst ==
  /\ \A h \in Handlers :
       TopView(h) =>
         \A i, j \in 1..ListLen(h) :
           i < j =>
             \/ Likes(hs[h].iter[i]) > Likes(hs[h].iter[j])
             \/ /\ Likes(hs[h].iter[i]) = Likes(hs[h].iter[j])
                /\ tracks[hs[h].iter[i]].createdAt >= tracks[hs[h].iter[j]].createdAt
  /\ \A g, h \in Handlers :
       (TopView(g) /\ TopView(h) /\ Rendered(g).key = Rendered(h).key) =>
         \A r, q \in Range(hs[g].iter) \cap Range(hs[h].iter) :
           Before(hs[g].iter, r, q) <=> Before(hs[h].iter, r, q)

\* C22: when showTracks renders an empty list for a user, the user has no
\* stored pagination session afterwards, whether or not there was one; a
\* session is stored only by a render of a non-empty list, whose view and page
\* it names, and nothing else changes a stored session.
C22_EmptyRenderClearsSession ==
  [][ /\ \A h \in Handlers :
           PageRenders(h) =>
             LET r == Rendered(h)'
                 uid == ToString(hs'[h].user)
             IN /\ r.empty => paginationState'[uid] = NoPage
                /\ ~r.empty => paginationState'[uid] = [key |-> r.key, page |-> r.page]
                /\ \A u \in DOMAIN paginationState \ {uid} :
                      paginationState'[u] = paginationState[u]
      /\ (\A h \in Handlers : ~PageRenders(h)) => paginationState' = paginationState ]_vars
\* a user who had a session got an empty list rendered and has none now
C22_Witness ==
  \E g, h \in Handlers :
    /\ hs[g].kind = "page" /\ hs[h].kind = "page" /\ hs[g].user = hs[h].user
    /\ ~Rendered(g).empty /\ Rendered(h).empty
    /\ paginationState[ToString(hs[h].user)] = NoPage

\* refreshPagination runs in handler h in this step
Refreshes(h) == hs[h].kind = "del" /\ hs[h].pc = "d_info" /\ hs'[h].pc # "d_info"

\* C23: a pagination refresh for a user without a stored session sends no
\* page, stores no session and changes no track, list or snapshot.
C23_RefreshWithoutSessionIsNoOp ==
  [][ \A h \in Handlers :
        (Refreshes(h) /\ paginationState[ToString(hs[h].user)] = NoPage) =>
          /\ hs'[h].page = <<>>
          /\ paginationState' = paginationState
          /\ UNCHANGED <<trackList, tracks, saved, live, shown>> ]_vars
\* a delete by a user without a session went through its refresh: no page
\* was sent and the user still has no session
C23_Witness ==
  \E h \in Handlers :
    /\ hs[h].kind = "del" /\ hs[h].pc = "done" /\ hs[h].ack = "deleted"
    /\ hs[h].page = <<>>
    /\ paginationState[ToString(hs[h].user)] = NoPage

\* an upload arrives at handler h in this step
UploadArrives(h) == hs[h].pc = "idle" /\ hs'[h].kind = "upload2"
\* the content-unique handle of the file given to h is in the store
HandleStored(h) ==
  \E i \in 1..Len(trackList) : tracks[trackList[i]].fileUniqueId = hs'[h].file.fuid

\* C24: an upload is rejected as a duplicate exactly when its content-unique
\* handle is that of a stored track; one whose handle is not in the store is
\* accepted whatever its transfer handle and its sanitized title.
C24_DuplicateByUniqueHandleOnly ==
  [][ \A h \in Handlers :
        UploadArrives(h) => (hs'[h].pc = "v_warn" <=> HandleStored(h)) ]_vars

\* the await of a user-visible notice returns in handler h in this step:
\* the 'track added' confirmation of an upload, the like toast of a like
ConfirmationSent(h) == hs[h].kind = "upload" /\ hs[h].pc = "u_added" /\ hs'[h].pc = "u_type"
ToastSent(h) == hs[h].kind = "like" /\ hs[h].pc = "l_toast" /\ hs'[h].pc # "l_toast"
\* the snapshot holds the track of h / holds it with the vote of h flipped
UploadPersisted(h) == \E i \in 1..Len(saved) : saved[i].id = hs[h].id
VotePersisted(h) ==
  \E i \in 1..Len(saved) : saved[i].id = hs[h].id /\ Toggled(h, saved[i].voters)

\* C25: by the time the 'track added' confirmation of an upload, or the
\* like-set / like-removed notice of a like, has been sent, the change is in
\* the persisted snapshot.
C25_PersistBeforeAcknowledge ==
  [][ \A h \in Handlers :
        /\ ConfirmationSent(h) => UploadPersisted(h)
        /\ ToastSent(h) => VotePersisted(h) ]_vars

\* the like or set-type handler h finishes in this step; no other is in flight
Finishes(h, kind) ==
  /\ hs[h].kind = kind /\ hs[h].ref # 0
  /\ hs[h].pc # "done" /\ hs'[h].pc = "done"
  /\ \A g \in Handlers \ {h} : Finished(g)
\* the snapshot record of the track of h has the track's kind, voters, views
PersistedAsInMemory(h) ==
  \A i \in 1..Len(trackList) :
    trackList[i] = hs[h].ref => SameFields(saved[i], tracks[hs[h].ref])

\* C26: when a like-toggle or set-type handler finishes, the persisted record
\* of its track has the kind, voters and views of the in-memory track, the
\* views pruned by the fan-out or retired by set-type included.
C26_ViewsPersistedAtFinish ==
  [][ \A h \in Handlers :
        (Finishes(h, "like") \/ Finishes(h, "type")) => PersistedAsInMemory(h)' ]_vars

\* ---------------------------------------------------------------- C27
\* handler h has finished, and the snapshot write it made threw
WriteFailed(h) == hs[h].pc = "done" /\ hs[h].wrote = "fail"
\* the notice or acknowledgement of an operation that succeeded
NormalNotice == {"ok", "added", "deleted"}

\* C27: an upload, like, set-type or delete whose snapshot write failed is
\* reported to the user as failed: it does not end with the normal success
\* notice or acknowledgement.
C27_FailedWriteIsReported ==
  \A h \in Handlers : WriteFailed(h) => hs[h].ack \notin NormalNotice

\* ---------------------------------------------------------------- C28
Restarts == CrashRestart \/ \E h \in Handlers : CrashInSave(h)

\* C28: whenever the process crashes and restarts, in the middle of a snapshot
\* write included, the loaded store equals the last snapshot that was written
\* completely; it is not loaded empty or truncated when a non-empty snapshot
\* had been completely written.
C28_RestartLoadsCompleteSnapshot ==
  [][ Restarts => Snapshot(trackList', tracks') = saved ]_vars

\* ---------------------------------------------------------------- C29
\* no stored track has this id
Absent(id) == \A i \in 1..Len(trackList) : tracks[trackList[i]].id # id
\* this step starts the delete handler h of an admin for an id that no
\* stored track has
AdminDeletesAbsent(h) ==
  /\ hs[h].pc = "idle" /\ hs'[h].kind = "del"
  /\ isAdmin(hs'[h].user)
  /\ Absent(hs'[h].id)
\* this step ends a delete handler that removed its track
DeleteCompletes(h) ==
  /\ hs[h].kind = "del" /\ hs[h].pc # "done"
  /\ hs'[h].pc = "done" /\ hs'[h].ack = "deleted"

\* C29: with events handled one at a time, an admin's delete of an id that is
\* not in the store leaves the store and the snapshot as they are and ends
\* with the not-found answer, no error; a delete that completed leaves no
\* track of its id behind, so a second delete of that id removes nothing.
C29_DeleteOfAbsentIdIsNoOp ==
  [][ \A h \in Handlers :
        /\ AdminDeletesAbsent(h) =>
             /\ trackList' = trackList /\ tracks' = tracks /\ saved' = saved
             /\ hs'[h].pc = "done" /\ hs'[h].ack = "notfound"
        /\ DeleteCompletes(h) => Absent(hs[h].id)' ]_vars
\* a second delete of an id, after the first removed its track, found nothing
C29_Witness ==
  \E g, h \in Handlers :
    /\ hs[g].kind = "del" /\ hs[g].pc = "done" /\ hs[g].ack = "deleted"
    /\ hs[h].kind = "del" /\ hs[h].pc = "done" /\ hs[h].ack = "notfound"
    /\ hs[h].id = hs[g].id /\ hs[h].n > hs[g].n /\ isAdmin(hs[h].user)
    /\ Len(trackList) = 1 /\ Len(saved) = 1

\* ---------------------------------------------------------------- C30
\* this step starts a like, set-type or play handler h whose id no stored
\* track has
ActsOnAbsent(h) ==
  /\ hs[h].pc = "idle" /\ hs'[h].kind \in {"like", "type", "play"}
  /\ Absent(hs'[h].id)

\* C30: a like, set-type or play action whose track id is not in the store
\* changes no track, no pagination session and no playback session, and is
\* answered with the not-found notice, without an error.
C30_ActionOnAbsentIdIsNoOp ==
  [][ \A h \in Handlers :
        ActsOnAbsent(h) =>
          /\ tracks' = tracks /\ trackList' = trackList
          /\ paginationState' = paginationState /\ tempPlays' = tempPlays
          /\ hs'[h].pc = "done" /\ hs'[h].ack = "notfound" ]_vars
\* the action found nothing because a delete, still in flight, had removed
\* its track
C30_Witness ==
  \E g, h \in Handlers :
    /\ hs[g].kind = "del" /\ hs[g].ref # 0 /\ hs[g].pc \in {"d_info", "d_page"}
    /\ hs[h].kind \in {"like", "type", "play"} /\ hs[h].id = hs[g].id
    /\ hs[h].pc = "done" /\ hs[h].ack = "notfound"
    /\ Absent(hs[h].id)

\* ---------------------------------------------------------------- C31
\* connection reset, timeout, fatal polling error
Connectivity == {"ECONNRESET", "ETIMEDOUT", "EFATAL"}
ConnectivityCaught == \E i \in 1..Len(proc.log) : proc.log[i] \in Connectivity
ExitedNonZero == proc.st = "exited" /\ proc.code # 0
\* this step hands the global handler an error that is not a connectivity error
OtherCaught ==
  /\ Len(proc'.log) = Len(proc.log) + 1
  /\ proc'.log[Len(proc'.log)] \notin Connectivity

\* C31: once the global error handler has received a connectivity error the
\* process eventually terminates with a non-zero exit status, and it never
\* launches the bot again; any other error schedules no exit and leaves the
\* process running, which exits for no other reason.
C31_ConnectivityErrorIsFatal ==
  /\ ConnectivityCaught ~> ExitedNonZero
  /\ [](proc.launches = 1)
  /\ [](proc.st = "exited" => ConnectivityCaught /\ proc.code # 0)
  /\ [][OtherCaught => proc'.st = "running" /\ proc'.exits = proc.exits]_vars
\* the process exited after an error that was not fatal and one that was
C31_Witness ==
  /\ ExitedNonZero
  /\ Len(proc.log) = 2 /\ proc.log[1] = "400" /\ proc.log[2] = "ETIMEDOUT"

\* ---------------------------------------------------------------- C32
\* the users of the allow-list
AllowListed == { u \in Users : ToString(u) \in ADMIN_IDS }
\* this step starts the delete handler h of a user who is not allow-listed
OutsiderDeletes(h) ==
  hs[h].pc = "idle" /\ hs'[h].kind = "del" /\ hs'[h].user \notin AllowListed

\* C32: a like bar rendered for a user carries the delete control if and only
\* if that user is in the admin allow-list, and the delete handler checks the
\* allow-list before it reads or changes any track: for anyone else it ends
\* at once with the no-rights answer, whether or not the id is stored.
C32_DeleteControlForAdminsOnly ==
  [][ \A h \in Handlers :
        /\ hs'[h].bar # NoBar => (hs'[h].bar.del <=> hs'[h].user \in AllowListed)
        /\ OutsiderDeletes(h) =>
             /\ hs'[h].pc = "done" /\ hs'[h].ack = "norights"
             /\ hs'[h].ref = 0 /\ hs'[h].idx = -1
             /\ trackList' = trackList /\ tracks' = tracks /\ saved' = saved
             /\ live' = live ]_vars
\* a bar with the control was rendered for an admin, and a delete pressed by
\* another user on a stored track was refused
C32_Witness ==
  \E g, h \in Handlers :
    /\ hs[g].bar # NoBar /\ hs[g].user \in AllowListed /\ hs[g].bar.del
    /\ hs[h].kind = "del" /\ hs[h].ack = "norights" /\ hs[h].user \notin AllowListed
    /\ ~Absent(hs[h].id)

\* ---------------------------------------------------------------- C33
\* the tracks this step takes out of the store
RemovedNow == Range(trackList) \ Range(trackList')

\* C33: under any interleaving, a step of an admin's delete handler for id X
\* takes out of the store no track but the one with id X, also when another
\* delete completed while the handler was awaiting its view teardown.
C33_DeleteRemovesOnlyItsTrack ==
  [][ \A h \in Handlers : DelSteps(h) =>
        \A r \in RemovedNow : tracks[r].id = hs'[h].id ]_vars

\* ---------------------------------------------------------------- C34
\* C34: the views of a stored track, whose upload has finished, never gain
\* an entry: no write of the views by a set-type or like handler brings back
\* an entry that was retired or pruned.
C34_ViewsOnlyShrink ==
  [][ \A i \in 1..Len(trackList) :
        Range(tracks'[trackList[i]].messages) \subseteq
          Range(tracks[trackList[i]].messages) ]_vars

\* ---------------------------------------------------------------- C35
\* the track object r has been removed from the store
Gone(r) == tracks[r].id # NoId /\ r \notin Range(trackList)

\* C35: deleted is terminal: a track that has been removed from the store is
\* in no later state in the in-memory store or in the persisted snapshot,
\* whatever like, set-type or play handler holding a reference to it resumes.
C35_DeletedIsTerminal ==
  [][ \A r \in Refs : Gone(r) =>
        /\ r \notin Range(trackList')
        /\ \A i \in 1..Len(saved') : saved'[i].id # tracks[r].id ]_vars
\* a like handler looked the track up while it was stored, and made its last
\* edit, on a view that the delete had torn down, after the removal
C35_Witness ==
  \E g, h \in Handlers :
    /\ hs[g].kind = "del" /\ hs[g].pc = "done" /\ hs[g].ack = "deleted"
    /\ hs[h].kind = "like" /\ hs[h].pc = "done" /\ hs[h].ref = hs[g].ref
    /\ Gone(hs[h].ref)
    /\ hs[h].res # <<>> /\ hs[h].res[Len(hs[h].res)] = "gone"
    /\ hs[h].wrote = "ok"

\* ---------------------------------------------------------------- C36
\* the like handler h threw at the send of a transient notice
NoticeFailed(h) == hs[h].kind = "like" /\ hs[h].pc = "failed"
\* the persisted voters of the track of h are the voters in memory
VotersInStep(h) ==
  \A i \in 1..Len(trackList) :
    trackList[i] = hs[h].ref => saved[i].voters = tracks[hs[h].ref].voters

\* C36: when a transient notice fails inside the like handler after the vote
\* was flipped in memory, memory and snapshot are not left out of step: the
\* persisted voters of the track are those in memory (the flip was persisted,
\* or it was taken back).
C36_FailedNoticeKeepsVotesInStep ==
  \A h \in Handlers : NoticeFailed(h) => VotersInStep(h)

\* ---------------------------------------------------------------- C37
\* a send of the upload handler h is rejected in this step
UploadFails(h) ==
  hs[h].kind = "upload" /\ hs[h].pc # "done" /\ hs'[h].ack = "failed"
\* the upload handler h ended because a send was rejected
UploadFailed(h) == hs[h].kind = "upload" /\ hs[h].ack = "failed"

\* C37: when a send fails during the upload handler, no track is added to the
\* store and the snapshot is unchanged, the handler ends without raising an
\* error, and its track is never stored, so that the failed upload does not
\* make a later upload of the same file a duplicate.
C37_FailedUploadLeavesNoTrack ==
  [][ \A h \in Handlers :
        /\ UploadFails(h) =>
             /\ trackList' = trackList /\ saved' = saved
             /\ hs'[h].pc = "done"
        /\ UploadFailed(h) =>
             /\ hs'[h] = hs[h]
             /\ hs[h].ref \notin Range(trackList')
             /\ \A i \in 1..Len(saved') : saved'[i].messages[1] # <<h, "audio">> ]_vars
\* an upload failed at a send after its track had been built, and a later
\* upload of the same file was added
C37_Witness ==
  \E g, h \in Handlers :
    /\ UploadFailed(g) /\ hs[g].ref # 0
    /\ hs[h].kind = "upload" /\ hs[h].ack = "added" /\ hs[h].file = hs[g].file
    /\ hs[h].ref \in Range(trackList) /\ hs[g].ref \notin Range(trackList)

\* ---------------------------------------------------------------- C38
\* the track object r exists
Created(r) == tracks[r].id # NoId
\* this step starts a set-type handler for the track r
SetTypeFor(r) ==
  \E h \in Handlers :
    /\ hs[h].pc = "idle" /\ hs'[h].kind = "type"
    /\ hs'[h].id = tracks[r].id /\ hs'[h].ref = r

\* C38: every stored track's kind is original or cover; a track is original
\* when it is created and still when it enters the store, and its kind is
\* changed by a set-type action for that track only: no like, play, page or
\* delete step changes it.
C38_KindOriginalUntilSet ==
  /\ [](\A i \in 1..Len(trackList) : tracks[trackList[i]].type \in {"original", "cover"})
  /\ [][ \A r \in Refs :
           /\ (~Created(r) /\ Created(r)') => tracks'[r].type = "original"
           /\ (r \notin Range(trackList) /\ r \in Range(trackList')) =>
                 tracks'[r].type = "original"
           /\ (Created(r) /\ tracks'[r].type # tracks[r].type) => SetTypeFor(r) ]_vars
\* a track uploaded as original was stored and then set to cover
C38_Witness ==
  \E g, h \in Handlers :
    /\ hs[g].kind = "upload" /\ hs[g].ack = "added"
    /\ hs[h].kind = "type" /\ hs[h].pc = "done" /\ hs[h].ref = hs[g].ref
    /\ hs[g].ref \in Range(trackList) /\ tracks[hs[g].ref].type = "cover"

\* ---------------------------------------------------------------- C39
Uids == {ToString(u) : u \in Users}

\* C39: with every scheduled expiry timer eventually firing, every recorded
\* playback session is eventually cleared, by an expiry callback or by a
\* later play, and once the plays have stopped every user ends up without a
\* playback session.
C39_SessionsEventuallyCleared ==
  /\ \A uid \in Uids : (tempPlays[uid] # NoPlay) ~> (tempPlays[uid] = NoPlay)
  /\ \A uid \in Uids : <>[](tempPlays[uid] = NoPlay)
\* an expiry callback went through the messages of a recorded session and
\* cleared it
C39_Witness ==
  \E p \in Plays :
    /\ timers[p].st = "fired" /\ timers[p].iter # <<>>
    /\ tempPlays[timers[p].uid] = NoPlay

=============================================================================
